---- MODULE Spec2Model ----
(***************************************************************************)
(* Model of the encrypted financial planning tool: a data owner (client)   *)
(* and a compute party (server) exchanging length-prefixed frames over one *)
(* TCP connection.  Two variants of each program exist in the repository:  *)
(*   "goal"    : src/client.cpp            with src/server.cpp lines 1-237 *)
(*   "savings" : src/unnamed/part_000 1-327 with src/server.cpp 239-442    *)
(* Each side is a straight-line main(); a step of the model is one         *)
(* send_data call, one receive_data call with the load that follows it,    *)
(* the interactive data entry, the evaluation block or the decrypt block.  *)
(* Spec is the session of the repository's own programs; SpecPeer is the   *)
(* same session with a client that deviates from them in one point;        *)
(* SpecWire is send_data and receive_data at the level of single send and  *)
(* recv calls on a byte stream; SpecScale applies the evaluator operations *)
(* to operands of every scale exponent; SpecCodec applies the scaling      *)
(* statement to one typed amount; SpecFair is Spec with weak fairness on   *)
(* the steps of the two processes; SpecSlots is the savings owner's        *)
(* filling of the slot vectors from the lists it read.                     *)
(***************************************************************************)
EXTENDS Integers, Sequences, FiniteSets, TLC

VARIABLES
    ownerVariant,   \* which client program runs
    serverVariant,  \* which server program runs
    conn,           \* the TCP connection has been established by connect()
    cpc, ci,        \* owner: phase and index of the next frame in that phase
    spc, si,        \* compute party: phase and index
    cObj,           \* owner memory: SEAL objects by variable name
    sObj,           \* compute party memory: SEAL objects by variable name
    scaled,         \* owner memory: the int64 scaled inputs
    c2s, s2c,       \* bytes in flight, as a sequence of (possibly cut) frames
    c2sLog, s2cLog, \* history: every frame a side started to write
    cGot, sGot,     \* history: what each receive_data call returned
    ops,            \* history: homomorphic operations the evaluator performed
    shown,          \* owner: the values printed after decryption
    fault,          \* how the connected client deviates from the repository's
    cEv, sEv,       \* history: calls, stderr lines and exits of each side
    sock,           \* compute party: connections queued by listen and returned by accept
    other,          \* a second owner process: its position and the frames it wrote
    toSend,         \* wire: payloads the sender has still to pass to send_data
    wpc,            \* wire: sender position inside send_data
    sendLog,        \* wire history: each send_data call, what it wrote and returned
    stream,         \* wire: bytes written and not yet read
    rpc,            \* wire: receiver position inside receive_data
    data_size,      \* wire: receive_data's local data_size
    recvLog,        \* wire history: what each receive_data call returned
    operands,       \* scale law: the two values an evaluator operation is applied to
    outcome,        \* scale law: the operation applied and its result
    typed,          \* codec: the amount as the user typed it
    cast,           \* codec: the int64 the scaling statement stored
    entered,        \* slots: the income and expense lists as the user typed them
    filled          \* slots: the vectors the savings owner built from them

sessionVars == <<ownerVariant, serverVariant, conn, cpc, ci, spc, si, cObj, sObj,
                 scaled, c2s, s2c, c2sLog, s2cLog, cGot, sGot, ops, shown,
                 fault, cEv, sEv, sock, other>>

wireVars == <<toSend, wpc, sendLog, stream, rpc, data_size, recvLog>>

scaleVars == <<operands, outcome>>

codecVars == <<typed, cast>>

slotVars == <<entered, filled>>

vars == <<sessionVars, wireVars, scaleVars, codecVars, slotVars>>

----------------------------------------------------------------------------
(* Bounds of the model and constants of the program *)

\* batch_encoder.slot_count() is 8192 in the program; the model keeps few slots
SlotCount == 2

\* most amounts the user types at one prompt of the savings client
MaxEntries == 3

\* PlainModulus::Batching(8192, 30): the largest 30-bit prime = 1 mod 16384
PlainModulus == 1073692673

\* const double SCALE_FACTOR = 100.0
ScaleFactor == 100

Variants == {"goal", "savings"}

----------------------------------------------------------------------------
(* Decimal amounts and the fixed-point scaling *)

\* A typed decimal amount: c hundredths plus t thousandths, t in 0..9
Amt(c, t) == [c |-> c, t |-> t]

AmtAdd(a, b) == [c |-> a.c + b.c + ((a.t + b.t) \div 10), t |-> (a.t + b.t) % 10]

RECURSIVE AmtSum(_)
\* std::accumulate(begin, end, 0.0)
AmtSum(s) == IF s = <<>> THEN Amt(0, 0) ELSE AmtAdd(Head(s), AmtSum(Tail(s)))

\* static_cast<int64_t>(round(d * SCALE_FACTOR)): nearest, halves away from zero
ToScaled(a) ==
    IF a.c >= 0 THEN a.c + (IF a.t >= 5 THEN 1 ELSE 0)
                ELSE a.c + (IF a.t > 5 THEN 1 ELSE 0)

----------------------------------------------------------------------------
(* SEAL objects, as far as the programs depend on them *)

\* kind: the C++ type; slots: residues mod PlainModulus; exp: scale exponent
\* of the slots (not stored by the program); role: the figure it stands for
Obj(kind, slots, exp, role) == [kind |-> kind, slots |-> slots, exp |-> exp, role |-> role]

NoSlots == <<>>

KeyObj(kind) == Obj(kind, NoSlots, 0, "none")

\* what receive_data returns on failure: the empty string
EmptyStr == Obj("empty", NoSlots, 0, "none")

\* a buffer of data_size zero bytes that recv did not fill
Garbage == Obj("garbage", NoSlots, 0, "none")

Slot(o, i) == IF i \in DOMAIN o.slots THEN o.slots[i] ELSE 0

\* an encoder whose values stand for amounts times 100 times 100
EncodeAtExponentTwo(v, role) ==
    Obj("Plaintext", [i \in 1..SlotCount |-> v[i] % PlainModulus], 2, role)

\* BatchEncoder::encode(vector<int64_t>): slot i holds v[i] mod t
Encode(v, role) == Obj("Plaintext", [i \in 1..SlotCount |-> v[i] % PlainModulus], 1, role)

\* Encryptor::encrypt
Encrypt(p) == Obj("Ciphertext", p.slots, p.exp, p.role)

\* Decryptor::decrypt: needs the secret key object
Decrypt(c, sk) ==
    IF c.kind = "Ciphertext" /\ sk.kind = "SecretKey"
    THEN Obj("Plaintext", c.slots, c.exp, c.role)
    ELSE Garbage

\* BatchEncoder::decode(vector<int64_t>): residues above t/2 come out negative
Centered(r) == IF r > PlainModulus \div 2 THEN r - PlainModulus ELSE r

Decode(p) == [i \in 1..SlotCount |-> Centered(Slot(p, i))]

\* Evaluator::add, sub, sub_plain: slot-wise mod t; nothing checks the exponents
Add(a, b, role) ==
    Obj("Ciphertext", [i \in 1..SlotCount |-> (Slot(a, i) + Slot(b, i)) % PlainModulus], a.exp, role)

Sub(a, b, role) ==
    Obj("Ciphertext", [i \in 1..SlotCount |-> (Slot(a, i) - Slot(b, i)) % PlainModulus], a.exp, role)

RECURSIVE MulMod(_, _)
MulMod(a, k) == IF k = 0 THEN 0 ELSE (MulMod(a, k - 1) + a) % PlainModulus

\* Evaluator::multiply_plain: slot-wise product mod t (the plain operand is small)
MultiplyPlain(a, p, role) ==
    Obj("Ciphertext", [i \in 1..SlotCount |-> MulMod(Slot(a, i), Slot(p, i))], a.exp + p.exp, role)

\* a reduction that loses the message
RelinearizeLosesMessage(a) == [a EXCEPT !.slots = [i \in DOMAIN a.slots |-> 0]]

\* Evaluator::relinearize: shrinks the ciphertext, keeps what it decrypts to
Relinearize(a) == a

----------------------------------------------------------------------------
(* The fixed frame sequences of the four programs *)

\* a client that serializes the secret key where the public key belongs
OwnerHandshakeLeaksSecret(v) ==
    IF v = "goal" THEN <<"parms", "secret_key", "relin_keys", "galois_keys">>
                  ELSE <<"parms", "secret_key", "relin_keys">>

\* a client that sends the relinearization key before the public key
OwnerHandshakeKeysSwapped(v) ==
    IF v = "goal" THEN <<"parms", "relin_keys", "public_key", "galois_keys">>
                  ELSE <<"parms", "relin_keys", "public_key">>

\* a client that sends its parameters after its keys
OwnerHandshakeParametersLast(v) ==
    IF v = "goal" THEN <<"public_key", "relin_keys", "galois_keys", "parms">>
                  ELSE <<"public_key", "relin_keys", "parms">>

\* client: the objects saved and sent before any data is entered
OwnerHandshake(v) ==
    IF v = "goal" THEN <<"parms", "public_key", "relin_keys", "galois_keys">>
                  ELSE <<"parms", "public_key", "relin_keys">>

\* a client that saves the encoded income instead of the encrypted one
OwnerInputsPlainIncome(v) ==
    IF v = "goal"
    THEN <<"encoded_total_income", "encoded_monthly_savings_goal",
           "encrypted_essential_expenses", "encrypted_non_essential_expenses">>
    ELSE <<"encoded_income", "encrypted_expense">>

\* a client that sends its parameters once more after the inputs
OwnerInputsThenParameters(v) ==
    IF v = "goal"
    THEN <<"encrypted_total_income", "encoded_monthly_savings_goal",
           "encrypted_essential_expenses", "encrypted_non_essential_expenses", "parms">>
    ELSE <<"encrypted_income", "encrypted_expense", "parms">>

\* client: the objects sent after data entry
OwnerInputs(v) ==
    IF v = "goal"
    THEN <<"encrypted_total_income", "encoded_monthly_savings_goal",
           "encrypted_essential_expenses", "encrypted_non_essential_expenses">>
    ELSE <<"encrypted_income", "encrypted_expense">>

\* client: the variable the i-th result frame is loaded into, and the role
\* under which that variable is decrypted and printed
OwnerResults(v) ==
    IF v = "goal"
    THEN <<[name |-> "encrypted_total_expenses_from_server", role |-> "total_expenses"],
           [name |-> "encrypted_net_income_from_server", role |-> "net_income"],
           [name |-> "encrypted_goal_difference_from_server", role |-> "goal_difference"],
           [name |-> "encrypted_essential_expenses_from_server_recd",
            role |-> "essential_expenses"],
           [name |-> "encrypted_non_essential_expenses_from_server_recd",
            role |-> "non_essential_expenses"]>>
    ELSE <<[name |-> "encrypted_net_income_from_server", role |-> "net_income"],
           [name |-> "encrypted_savings_contribution_from_server",
            role |-> "savings_contribution"]>>

\* server: the variable and type each handshake frame is loaded into
ServerHandshake(v) ==
    IF v = "goal"
    THEN <<[name |-> "parms", kind |-> "EncryptionParameters"],
           [name |-> "public_key", kind |-> "PublicKey"],
           [name |-> "relin_keys", kind |-> "RelinKeys"],
           [name |-> "galois_keys", kind |-> "GaloisKeys"]>>
    ELSE <<[name |-> "parms", kind |-> "EncryptionParameters"],
           [name |-> "public_key", kind |-> "PublicKey"],
           [name |-> "relin_keys", kind |-> "RelinKeys"]>>

\* server: the variable and type each input frame is loaded into
ServerInputs(v) ==
    IF v = "goal"
    THEN <<[name |-> "encrypted_total_income", kind |-> "Ciphertext"],
           [name |-> "encoded_monthly_savings_goal", kind |-> "Plaintext"],
           [name |-> "encrypted_essential_expenses_received", kind |-> "Ciphertext"],
           [name |-> "encrypted_non_essential_expenses_received", kind |-> "Ciphertext"]>>
    ELSE <<[name |-> "encrypted_income", kind |-> "Ciphertext"],
           [name |-> "encrypted_expense", kind |-> "Ciphertext"]>>

\* a server that sends the net income before the other results
ServerResultsReordered(v) ==
    IF v = "goal"
    THEN <<"encrypted_net_income", "encrypted_total_expenses", "encrypted_goal_difference",
           "encrypted_essential_expenses_received",
           "encrypted_non_essential_expenses_received">>
    ELSE <<"encrypted_savings_contribution", "encrypted_net_income">>

\* server: the additions and subtractions of the pipeline, in order, with
\* their operands and their destination
PipelineSums(v) ==
    IF v = "goal"
    THEN <<[op |-> "add", a |-> "encrypted_essential_expenses_received",
            b |-> "encrypted_non_essential_expenses_received",
            dest |-> "encrypted_total_expenses", role |-> "total_expenses"],
           [op |-> "sub", a |-> "encrypted_total_income", b |-> "encrypted_total_expenses",
            dest |-> "encrypted_net_income", role |-> "net_income"],
           [op |-> "sub_plain", a |-> "encrypted_net_income",
            b |-> "encoded_monthly_savings_goal",
            dest |-> "encrypted_goal_difference", role |-> "goal_difference"]>>
    ELSE <<[op |-> "sub", a |-> "encrypted_income", b |-> "encrypted_expense",
            dest |-> "encrypted_net_income", role |-> "net_income"]>>

\* a server that leaves out its last result
ServerResultsOneShort(v) ==
    IF v = "goal"
    THEN <<"encrypted_total_expenses", "encrypted_net_income", "encrypted_goal_difference",
           "encrypted_essential_expenses_received">>
    ELSE <<"encrypted_net_income">>

\* server: the variables saved and sent back, in order
ServerResults(v) ==
    IF v = "goal"
    THEN <<"encrypted_total_expenses", "encrypted_net_income", "encrypted_goal_difference",
           "encrypted_essential_expenses_received",
           "encrypted_non_essential_expenses_received">>
    ELSE <<"encrypted_net_income", "encrypted_savings_contribution">>

\* a client that divides every result by SCALE_FACTOR once
OwnerDivisorSingleScale(role) == ScaleFactor

\* client: the divisor applied to a decoded result before it is printed
OwnerDivisor(role) ==
    IF role = "savings_contribution" THEN ScaleFactor * ScaleFactor ELSE ScaleFactor

----------------------------------------------------------------------------
(* Framed transport *)

Terminal(pc) == pc \in {"done", "failed", "crashed"}

\* send(): both writes succeed, the first fails, the second fails, or the
\* process is killed by SIGPIPE (no MSG_NOSIGNAL) when the peer is gone
SendOutcomes(peerGone) ==
    {"ok", "fail_size", "fail_data"} \cup (IF peerGone THEN {"sigpipe"} ELSE {})

\* send_data: what reaches the stream
ChanAfterSend(ch, obj, out) ==
    CASE out = "ok"        -> Append(ch, [f |-> obj, full |-> TRUE])
      [] out = "fail_data" -> Append(ch, [f |-> obj, full |-> FALSE])
      [] OTHER             -> ch

\* send_data: its return value
SendReturns(out) == out = "ok"

Ret(ret, rest, cause, crash) == [ret |-> ret, rest |-> rest, cause |-> cause, crash |-> crash]

\* a receive_data that gives up when nothing arrives from a living peer
RecvOutcomesWithTimeout(ch, peerGone) ==
    IF ch = <<>> /\ ~peerGone THEN {Ret(EmptyStr, ch, "error", FALSE)} ELSE {}

\* receive_data: only recv() == -1 is treated as failure.  When the peer has
\* closed, recv returns 0: in the header read data_size stays uninitialised
\* (0: "" is returned; small: a zero buffer is returned; huge: the vector
\* allocation throws), in the payload read the unfilled buffer is returned.
RecvOutcomes(ch, peerGone) ==
    IF ch # <<>>
    THEN IF Head(ch).full
         THEN {Ret(Head(ch).f, Tail(ch), "none", FALSE)}
         ELSE {Ret(Garbage, Tail(ch), "closed_in_payload", FALSE),
               Ret(EmptyStr, Tail(ch), "error", FALSE)}
    ELSE IF peerGone
         THEN {Ret(EmptyStr, ch, "closed_in_header", FALSE),
               Ret(Garbage, ch, "closed_in_header", FALSE),
               Ret(EmptyStr, ch, "closed_in_header", TRUE),
               Ret(EmptyStr, ch, "error", FALSE)}
         ELSE {}

\* X.load(context, stream) on the bytes of an object of type `got`: RelinKeys
\* and GaloisKeys have no load of their own, both use KSwitchKeys::load on the
\* same serialized form; every other pair of distinct types throws
LoadAccepts(kind, got) ==
    \/ got = kind
    \/ {kind, got} \subseteq {"RelinKeys", "GaloisKeys"}

\* a caller without the `if (str.empty()) return 1;` line
AfterReceiveNoEmptyCheck(r, kind) ==
    IF r.crash THEN "crashed"
    ELSE IF r.ret.kind = "empty" \/ LoadAccepts(kind, r.ret.kind) THEN "ok"
    ELSE "crashed"

\* the caller: `if (str.empty()) return 1;` then X.load(context, stream), which
\* throws on bytes that are not a serialized object of the expected type
AfterReceive(r, kind) ==
    IF r.crash THEN "crashed"
    ELSE IF r.ret.kind = "empty" THEN "failed"
    ELSE IF LoadAccepts(kind, r.ret.kind) THEN "ok"
    ELSE "crashed"

Got(r) == [ret |-> r.ret, cause |-> r.cause, crash |-> r.crash]

\* parameters that deserialize but do not validate: parameters_set() is false
InvalidParms == Obj("EncryptionParameters", NoSlots, 0, "invalid_parameters")

\* the server: the load of a key or input needs a context whose parameters
\* are set; it is never asked, so with an invalid context the load throws
ServerLoad(r, e, mem) ==
    LET st == AfterReceive(r, e.kind)
    IN  IF st = "ok" /\ e.name # "parms" /\ "parms" \in DOMAIN mem
                     /\ mem["parms"] = InvalidParms
        THEN "crashed"
        ELSE st

\* a caller that goes on after send_data returned false
AfterSendIgnoresFalse(ret) == "ok"

\* the caller: `if (!send_data(sock, X.str())) return 1;`
AfterSend(ret) == IF ret THEN "ok" ELSE "failed"

----------------------------------------------------------------------------
(* What each side does that an operator can see: calls, stderr, exits *)

Ev(op, arg, of) == [op |-> op, arg |-> arg, of |-> of]

\* send_data and receive_data of client.cpp print nothing; the copies in
\* server.cpp and in the savings client print one line before they return
HelperPrints(side, v) == ~(side = "owner" /\ v = "goal")

\* only the goal server's main names the frame before `return 1`
MainPrints(side, v) == side = "server" /\ v = "goal"

SendDataEvents(side, v, name, out) ==
    (IF out \in {"fail_size", "fail_data"} /\ HelperPrints(side, v)
     THEN <<Ev("cerr", IF out = "fail_size" THEN "Error sending data size."
                                            ELSE "Error sending data.", name)>>
     ELSE <<>>)
    \o <<Ev("send_data", IF out = "sigpipe" THEN "killed"
                         ELSE IF SendReturns(out) THEN "true" ELSE "false", name)>>

\* hdr: the failing recv was the one of the length header
ReceiveDataEvents(side, v, name, r, hdr) ==
    (IF r.cause = "error" /\ HelperPrints(side, v)
     THEN <<Ev("cerr", IF hdr THEN "Error receiving data size."
                              ELSE "Error receiving data.", name)>>
     ELSE <<>>)
    \o <<Ev("receive_data", IF r.crash THEN "threw"
                            ELSE IF r.ret = EmptyStr THEN "empty" ELSE "message", name)>>

\* what follows a call in main: the load, or the error line and `return 1`
CallerEvents(side, v, name, call, st) ==
    CASE st = "failed" ->
           (IF MainPrints(side, v)
            THEN <<Ev("cerr", IF call = "send" THEN "Error: Failed to send"
                                               ELSE "Error: Failed to receive", name)>>
            ELSE <<>>) \o <<Ev("return", "1", name)>>
      [] st = "crashed" /\ call = "load" -> <<Ev("load", "threw", name)>>
      [] st = "ok" /\ call = "load" -> <<Ev("load", "ok", name)>>
      [] OTHER -> <<>>

\* the end of main on the success path
OwnerExitEvents == <<Ev("close", "sock", "none"), Ev("return", "0", "none")>>

ServerExitEvents ==
    <<Ev("close", "new_socket", "none"), Ev("close", "server_fd", "none"),
      Ev("return", "0", "none")>>

\* a client that leaves without a word when connect() fails
ConnectFailedSilently == <<Ev("return", "-1", "none")>>

\* the client's connect() failed: one line, `return -1`, the socket is left open
ConnectFailedEvents ==
    <<Ev("cerr", "Connection Failed. Ensure server_app is running first.", "none"),
      Ev("return", "-1", "none")>>

----------------------------------------------------------------------------
(* Inputs the user may type *)

GoalIncomeLists ==
    {<<>>, <<Amt(150075, 0)>>, <<Amt(100000, 5), Amt(50074, 5)>>}

EssentialAmounts == {Amt(45050, 0), Amt(300000000, 0), Amt(600000000, 0)}

NonEssentialAmounts == {Amt(0, 0), Amt(55025, 0), Amt(300000000, 0)}

GoalAmounts == {Amt(50000, 0), Amt(200000, 4)}

SavingsIncomeAmounts == {Amt(150075, 0), Amt(40000000, 0)}

SavingsExpenseAmounts == {Amt(45050, 0), Amt(12000, 6)}

SeqsUpTo(S, n) == UNION {[1..k -> S] : k \in 0..n}

----------------------------------------------------------------------------
(* The owner (client) *)

\* KeyGenerator: the secret key and the keys derived from it
KeyGen(v) ==
    LET base == ("parms" :> KeyObj("EncryptionParameters"))
             @@ ("secret_key" :> KeyObj("SecretKey"))
             @@ ("public_key" :> KeyObj("PublicKey"))
             @@ ("relin_keys" :> KeyObj("RelinKeys"))
    IN  IF v = "goal" THEN base @@ ("galois_keys" :> KeyObj("GaloisKeys")) ELSE base

\* accept() takes any client.  One that is not the repository's sends
\* parameters that load but do not validate, sends a frame of length zero
\* where its public key belongs, or leaves out one frame
Faults(v) ==
    {"none", "invalid_parms", "empty_public_key"}
        \cup {OwnerHandshake(v)[i] : i \in 1..Len(OwnerHandshake(v))}
        \cup {OwnerInputs(v)[i] : i \in 1..Len(OwnerInputs(v))}

\* the frames of a phase the client really sends
OwnerFrames(seq, f) == SelectSeq(seq, LAMBDA n : n # f)

\* the bytes the client really sends for an object
Frame(o, f) ==
    IF f = "invalid_parms" /\ o.kind = "EncryptionParameters" THEN InvalidParms
    ELSE IF f = "empty_public_key" /\ o.kind = "PublicKey" THEN EmptyStr
    ELSE o

NoScaled == [income |-> <<>>, expense |-> <<>>, essential |-> 0, non_essential |-> 0, goal |-> 0]

\* connect(): refused unless the server is already listening
OwnerConnect ==
    /\ cpc = "connect"
    /\ IF spc = "start"
       THEN /\ cpc' = "failed"
            /\ cEv' = cEv \o ConnectFailedEvents
            /\ UNCHANGED <<conn, ci, cObj, sock>>
       ELSE /\ conn' = TRUE
            /\ cpc' = "handshake"
            /\ ci' = 1
            /\ cObj' = KeyGen(ownerVariant)
            /\ cEv' = cEv
            /\ sock' = [sock EXCEPT !.backlog = Append(@, "owner")]
    /\ UNCHANGED <<other, ownerVariant, serverVariant, spc, si, sObj, scaled, c2s, s2c,
                   c2sLog, s2cLog, cGot, sGot, ops, shown, fault, sEv>>
    /\ UNCHANGED <<wireVars, scaleVars, codecVars, slotVars>>

\* one `if (!send_data(sock, X.str())) return 1;` of the handshake or input block
OwnerSend ==
    /\ cpc \in {"handshake", "inputs"}
    /\ LET seq == OwnerFrames(IF cpc = "handshake" THEN OwnerHandshake(ownerVariant)
                                                   ELSE OwnerInputs(ownerVariant), fault)
           obj == Frame(cObj[seq[ci]], fault)
       IN  \E out \in SendOutcomes(Terminal(spc)) :
             LET st == IF out = "sigpipe" THEN "crashed" ELSE AfterSend(SendReturns(out))
             IN  /\ c2s' = ChanAfterSend(c2s, obj, out)
                 /\ c2sLog' = ChanAfterSend(c2sLog, obj, out)
                 /\ cEv' = cEv \o SendDataEvents("owner", ownerVariant, seq[ci], out)
                               \o CallerEvents("owner", ownerVariant, seq[ci], "send", st)
                 /\ IF st # "ok" THEN cpc' = st /\ ci' = ci
                    ELSE IF ci < Len(seq) THEN cpc' = cpc /\ ci' = ci + 1
                    ELSE /\ cpc' = (IF cpc = "handshake" THEN "enter" ELSE "results")
                         /\ ci' = 1
    /\ UNCHANGED <<sock, other, ownerVariant, serverVariant, conn, spc, si, cObj, sObj, scaled,
                   s2c, s2cLog, cGot, sGot, ops, shown, fault, sEv>>
    /\ UNCHANGED <<wireVars, scaleVars, codecVars, slotVars>>

Fill(x) == [i \in 1..SlotCount |-> x]

\* goal client: read the amounts, scale, encode into every slot, encrypt
OwnerEnterDataGoal ==
    /\ cpc = "enter"
    /\ ownerVariant = "goal"
    /\ \E inc \in GoalIncomeLists, ess \in EssentialAmounts,
          non \in NonEssentialAmounts, goal \in GoalAmounts :
         LET total_income_scaled == ToScaled(AmtSum(inc))
             essential_expenses_scaled == ToScaled(ess)
             non_essential_expenses_scaled == ToScaled(non)
             monthly_savings_goal_scaled == ToScaled(goal)
             encoded_total_income == Encode(Fill(total_income_scaled), "total_income")
             encoded_essential_expenses ==
                 Encode(Fill(essential_expenses_scaled), "essential_expenses")
             encoded_non_essential_expenses ==
                 Encode(Fill(non_essential_expenses_scaled), "non_essential_expenses")
             encoded_monthly_savings_goal ==
                 Encode(Fill(monthly_savings_goal_scaled), "savings_goal")
         IN  /\ scaled' = [income |-> <<total_income_scaled>>, expense |-> <<>>,
                           essential |-> essential_expenses_scaled,
                           non_essential |-> non_essential_expenses_scaled,
                           goal |-> monthly_savings_goal_scaled]
             /\ cObj' = ("encoded_total_income" :> encoded_total_income)
                     @@ ("encrypted_total_income" :> Encrypt(encoded_total_income))
                     @@ ("encoded_essential_expenses" :> encoded_essential_expenses)
                     @@ ("encrypted_essential_expenses" :> Encrypt(encoded_essential_expenses))
                     @@ ("encoded_non_essential_expenses" :> encoded_non_essential_expenses)
                     @@ ("encrypted_non_essential_expenses" :>
                            Encrypt(encoded_non_essential_expenses))
                     @@ ("encoded_monthly_savings_goal" :> encoded_monthly_savings_goal)
                     @@ cObj
    /\ cpc' = "inputs"
    /\ ci' = 1
    /\ UNCHANGED <<sock, other, ownerVariant, serverVariant, conn, spc, si, sObj, c2s, s2c,
                   c2sLog, s2cLog, cGot, sGot, ops, shown, fault, cEv, sEv>>
    /\ UNCHANGED <<wireVars, scaleVars, codecVars, slotVars>>

\* vector::resize(n): cut, or pad with 0.0
Resize(s, n) == [i \in 1..n |-> IF i <= Len(s) THEN s[i] ELSE Amt(0, 0)]

\* vector<int64_t>(slot_count, 0LL) overwritten by the scaled amounts
ScaledData(d) == [i \in 1..SlotCount |-> IF i <= Len(d) THEN ToScaled(d[i]) ELSE 0]

\* savings client: read the two lists, pad or cut, scale, encode, encrypt
OwnerEnterDataSavings ==
    /\ cpc = "enter"
    /\ ownerVariant = "savings"
    /\ \E inc \in SeqsUpTo(SavingsIncomeAmounts, MaxEntries),
          exp \in SeqsUpTo(SavingsExpenseAmounts, MaxEntries) :
         LET inc1 == IF inc = <<>> THEN <<Amt(0, 0)>> ELSE inc
             exp1 == IF exp = <<>> THEN <<Amt(0, 0)>> ELSE exp
             max_data_size == IF Len(inc1) >= Len(exp1) THEN Len(inc1) ELSE Len(exp1)
             income_double_data ==
                 IF max_data_size > SlotCount THEN Resize(inc1, SlotCount) ELSE inc1
             expense_double_data ==
                 IF max_data_size > SlotCount THEN Resize(exp1, SlotCount) ELSE exp1
             income_scaled_data == ScaledData(income_double_data)
             expense_scaled_data == ScaledData(expense_double_data)
             encoded_income == Encode(income_scaled_data, "income")
             encoded_expense == Encode(expense_scaled_data, "expense")
         IN  /\ scaled' = [NoScaled EXCEPT !.income = income_scaled_data,
                                           !.expense = expense_scaled_data]
             /\ cObj' = ("encoded_income" :> encoded_income)
                     @@ ("encrypted_income" :> Encrypt(encoded_income))
                     @@ ("encoded_expense" :> encoded_expense)
                     @@ ("encrypted_expense" :> Encrypt(encoded_expense))
                     @@ cObj
    /\ cpc' = "inputs"
    /\ ci' = 1
    /\ UNCHANGED <<sock, other, ownerVariant, serverVariant, conn, spc, si, sObj, c2s, s2c,
                   c2sLog, s2cLog, cGot, sGot, ops, shown, fault, cEv, sEv>>
    /\ UNCHANGED <<wireVars, scaleVars, codecVars, slotVars>>

\* one `receive_data; if (empty) return 1; X.load(context, stream);` of the results
OwnerReceive ==
    /\ cpc = "results"
    /\ \E r \in RecvOutcomes(s2c, Terminal(spc)) :
         LET seq == OwnerResults(ownerVariant)
             st == AfterReceive(r, "Ciphertext")
             call == IF st = "failed" THEN "receive" ELSE IF r.crash THEN "none" ELSE "load"
         IN  /\ s2c' = r.rest
             /\ cGot' = Append(cGot, Got(r))
             /\ cEv' = cEv \o ReceiveDataEvents("owner", ownerVariant, seq[ci].name, r,
                                                s2c = <<>>)
                           \o CallerEvents("owner", ownerVariant, seq[ci].name, call, st)
             /\ IF st = "ok"
                THEN /\ cObj' = (seq[ci].name :> r.ret) @@ cObj
                     /\ IF ci < Len(seq) THEN cpc' = cpc /\ ci' = ci + 1
                                         ELSE cpc' = "decrypt" /\ ci' = 1
                ELSE /\ cpc' = st
                     /\ UNCHANGED <<ci, cObj>>
    /\ UNCHANGED <<sock, other, ownerVariant, serverVariant, conn, spc, si, sObj, scaled, c2s,
                   c2sLog, s2cLog, sGot, ops, shown, fault, sEv>>
    /\ UNCHANGED <<wireVars, scaleVars, codecVars, slotVars>>

\* decrypt, decode, divide: what is printed for one result variable
Display(r, slots) ==
    LET dec == Decode(Decrypt(cObj[r.name], cObj["secret_key"]))
    IN  [raw |-> [i \in 1..slots |-> dec[i]], div |-> OwnerDivisor(r.role),
         exp |-> cObj[r.name].exp, from |-> cObj[r.name].role]

Displays(seq, slots) ==
    [role \in {seq[i].role : i \in 1..Len(seq)} |->
        Display(CHOOSE r \in {seq[i] : i \in 1..Len(seq)} : r.role = role, slots)]

\* std::abs of a double
Abs(n) == IF n < 0 THEN 0 - n ELSE n

\* one line of the recommendations: what it says and the amount it prints, in
\* hundredths ("none" when the line prints no decrypted amount)
Cout(line, amount) == Ev("cout", line, amount)

\* a client that needs a surplus to report being on track
RecommendationsStrict(goal_difference, non_essential) ==
    IF goal_difference > 0
    THEN <<Cout("on track", "none"), Cout("additional beyond goal", ToString(goal_difference))>>
    ELSE <<Cout("need to save an additional", ToString(Abs(goal_difference)))>>
         \o (IF non_essential > 0
             THEN <<Cout("adjust NON-ESSENTIALS", ToString(non_essential)),
                    Cout("review categories", "none")>>
             ELSE <<Cout("even with zero non-essential spending", "none")>>)
         \o <<Cout("revisit your budget", "none")>>

\* goal client: the "Financial Recommendations" printed from the decrypted goal
\* difference and the decrypted non-essential total
Recommendations(goal_difference, non_essential) ==
    IF goal_difference >= 0
    THEN <<Cout("on track", "none")>>
         \o (IF goal_difference > 0
             THEN <<Cout("additional beyond goal", ToString(goal_difference))>>
             ELSE <<>>)
    ELSE <<Cout("need to save an additional", ToString(Abs(goal_difference)))>>
         \o (IF non_essential > 0
             THEN <<Cout("adjust NON-ESSENTIALS", ToString(non_essential)),
                    Cout("review categories", "none")>>
             ELSE <<Cout("even with zero non-essential spending", "none")>>)
         \o <<Cout("revisit your budget", "none")>>

\* goal client: slot [0] of each of the five results, the recommendations, then
\* close and return 0
OwnerDecryptGoal ==
    /\ cpc = "decrypt"
    /\ ownerVariant = "goal"
    /\ shown' = Displays(OwnerResults("goal"), 1)
    /\ cpc' = "done"
    /\ cEv' = cEv \o Recommendations(shown'["goal_difference"].raw[1],
                                     shown'["non_essential_expenses"].raw[1])
                  \o OwnerExitEvents
    /\ UNCHANGED <<sock, other, ownerVariant, serverVariant, conn, ci, spc, si, cObj, sObj, scaled,
                   c2s, s2c, c2sLog, s2cLog, cGot, sGot, ops, fault, sEv>>
    /\ UNCHANGED <<wireVars, scaleVars, codecVars, slotVars>>

\* savings client: every slot of the two results, then close and return 0
OwnerDecryptSavings ==
    /\ cpc = "decrypt"
    /\ ownerVariant = "savings"
    /\ shown' = Displays(OwnerResults("savings"), SlotCount)
    /\ cpc' = "done"
    /\ cEv' = cEv \o OwnerExitEvents
    /\ UNCHANGED <<sock, other, ownerVariant, serverVariant, conn, ci, spc, si, cObj, sObj, scaled,
                   c2s, s2c, c2sLog, s2cLog, cGot, sGot, ops, fault, sEv>>
    /\ UNCHANGED <<wireVars, scaleVars, codecVars, slotVars>>

----------------------------------------------------------------------------
(* The compute party (server) *)

\* no connection has reached the listening socket
NoSock == [backlog |-> <<>>, accepted |-> <<>>]

\* int new_socket: what the last accept() returned
NewSocket == IF sock.accepted = <<>> THEN "none" ELSE sock.accepted[Len(sock.accepted)]

\* a server that goes back to accept() when its session is over
ServerEndAcceptsAgain(st) == IF st = "crashed" THEN st ELSE "accept"

\* `return 0` and `return 1` in main, or an uncaught exception: the process is
\* over; no loop leads back to accept()
ServerEnd(st) == st

\* socket, setsockopt, bind, listen
ServerListen ==
    /\ spc = "start"
    /\ spc' = "accept"
    /\ UNCHANGED <<sock, other, ownerVariant, serverVariant, conn, cpc, ci, si, cObj, sObj, scaled,
                   c2s, s2c, c2sLog, s2cLog, cGot, sGot, ops, shown, fault, cEv, sEv>>
    /\ UNCHANGED <<wireVars, scaleVars, codecVars, slotVars>>

\* accept(): blocks until a client has connected
ServerAccept ==
    /\ spc = "accept"
    /\ sock.backlog # <<>>
    /\ sock' = [backlog |-> Tail(sock.backlog),
                 accepted |-> Append(sock.accepted, Head(sock.backlog))]
    /\ spc' = "handshake"
    /\ si' = 1
    /\ UNCHANGED <<other, ownerVariant, serverVariant, conn, cpc, ci, cObj, sObj, scaled,
                   c2s, s2c, c2sLog, s2cLog, cGot, sGot, ops, shown, fault, cEv, sEv>>
    /\ UNCHANGED <<wireVars, scaleVars, codecVars, slotVars>>

\* one `receive_data; if (empty) return 1; X.load(...)` of the handshake or inputs
ServerReceive ==
    /\ spc \in {"handshake", "inputs"}
    /\ \E r \in RecvOutcomes(IF NewSocket = "other" THEN other.unread ELSE c2s,
                           IF NewSocket = "other" THEN other.pc = "reset"
                                                   ELSE Terminal(cpc)) :
         LET seq == IF spc = "handshake" THEN ServerHandshake(serverVariant)
                                         ELSE ServerInputs(serverVariant)
             st == ServerLoad(r, seq[si], sObj)
             call == IF st = "failed" THEN "receive" ELSE IF r.crash THEN "none" ELSE "load"
         IN  /\ c2s' = (IF NewSocket = "other" THEN c2s ELSE r.rest)
             /\ other' = (IF NewSocket = "other" THEN [other EXCEPT !.unread = r.rest]
                                                  ELSE other)
             /\ sGot' = Append(sGot, Got(r))
             /\ sEv' = sEv \o ReceiveDataEvents("server", serverVariant, seq[si].name, r,
                                                c2s = <<>>)
                           \o CallerEvents("server", serverVariant, seq[si].name, call, st)
             /\ IF st = "ok"
                THEN /\ sObj' = (seq[si].name :> r.ret) @@ sObj
                     /\ IF si < Len(seq) THEN spc' = spc /\ si' = si + 1
                        ELSE /\ spc' = (IF spc = "handshake" THEN "inputs" ELSE "evaluate")
                             /\ si' = 1
                ELSE /\ spc' = ServerEnd(st)
                     /\ UNCHANGED <<si, sObj>>
    /\ UNCHANGED <<sock, ownerVariant, serverVariant, conn, cpc, ci, cObj, scaled, s2c,
                   c2sLog, s2cLog, cGot, ops, shown, fault, cEv>>
    /\ UNCHANGED <<wireVars, scaleVars, codecVars, slotVars>>

\* goal server: add, sub, sub_plain into three fresh ciphertexts
ServerEvaluateGoal ==
    /\ spc = "evaluate"
    /\ serverVariant = "goal"
    /\ LET encrypted_total_expenses ==
               Add(sObj["encrypted_essential_expenses_received"],
                   sObj["encrypted_non_essential_expenses_received"], "total_expenses")
           encrypted_net_income ==
               Sub(sObj["encrypted_total_income"], encrypted_total_expenses, "net_income")
           encrypted_goal_difference ==
               Sub(encrypted_net_income, sObj["encoded_monthly_savings_goal"],
                   "goal_difference")
       IN  sObj' = ("encrypted_total_expenses" :> encrypted_total_expenses)
                @@ ("encrypted_net_income" :> encrypted_net_income)
                @@ ("encrypted_goal_difference" :> encrypted_goal_difference)
                @@ sObj
    /\ ops' = ops \o <<"add", "sub", "sub_plain">>
    /\ sEv' = sEv \o <<Ev("evaluator", "add", "encrypted_total_expenses"),
                        Ev("evaluator", "sub", "encrypted_net_income"),
                        Ev("evaluator", "sub_plain", "encrypted_goal_difference")>>
    /\ spc' = "results"
    /\ si' = 1
    /\ UNCHANGED <<sock, other, ownerVariant, serverVariant, conn, cpc, ci, cObj, scaled, c2s, s2c,
                   c2sLog, s2cLog, cGot, sGot, shown, fault, cEv>>
    /\ UNCHANGED <<wireVars, scaleVars, codecVars, slotVars>>

\* round(0.15 * SCALE_FACTOR)
SavingsRate == Amt(15, 0)

\* savings server: sub, then multiply_plain by the encoded rate and relinearize
ServerEvaluateSavings ==
    /\ spc = "evaluate"
    /\ serverVariant = "savings"
    /\ LET encrypted_net_income ==
               Sub(sObj["encrypted_income"], sObj["encrypted_expense"], "net_income")
           encoded_savings_rate == Encode(Fill(ToScaled(SavingsRate)), "savings_rate")
           encrypted_savings_contribution ==
               Relinearize(MultiplyPlain(sObj["encrypted_income"], encoded_savings_rate,
                                         "savings_contribution"))
       IN  sObj' = ("encrypted_net_income" :> encrypted_net_income)
                @@ ("encrypted_savings_contribution" :> encrypted_savings_contribution)
                @@ sObj
    /\ ops' = ops \o <<"sub", "multiply_plain", "relinearize">>
    /\ sEv' = sEv \o <<Ev("evaluator", "sub", "encrypted_net_income"),
                        Ev("evaluator", "multiply_plain", "encrypted_savings_contribution"),
                        Ev("evaluator", "relinearize", "encrypted_savings_contribution")>>
    /\ spc' = "results"
    /\ si' = 1
    /\ UNCHANGED <<sock, other, ownerVariant, serverVariant, conn, cpc, ci, cObj, scaled, c2s, s2c,
                   c2sLog, s2cLog, cGot, sGot, shown, fault, cEv>>
    /\ UNCHANGED <<wireVars, scaleVars, codecVars, slotVars>>

\* one `X.save(ss); if (!send_data(new_socket, ss.str())) return 1;` of the results;
\* after the last one the sockets are closed and main returns 0
ServerSend ==
    /\ spc = "results"
    /\ LET seq == ServerResults(serverVariant)
           obj == sObj[seq[si]]
       IN  \E out \in SendOutcomes(Terminal(cpc)) :
             LET st == IF out = "sigpipe" THEN "crashed" ELSE AfterSend(SendReturns(out))
                 last == st = "ok" /\ si = Len(seq)
             IN  /\ s2c' = (IF NewSocket = "other" THEN s2c
                                                   ELSE ChanAfterSend(s2c, obj, out))
                 /\ s2cLog' = (IF NewSocket = "other" THEN s2cLog
                                                      ELSE ChanAfterSend(s2cLog, obj, out))
                 /\ sEv' = sEv \o SendDataEvents("server", serverVariant, seq[si], out)
                               \o CallerEvents("server", serverVariant, seq[si], "send", st)
                               \o (IF last THEN ServerExitEvents ELSE <<>>)
                 /\ IF st # "ok" THEN spc' = ServerEnd(st) /\ si' = si
                    ELSE IF ~last THEN spc' = spc /\ si' = si + 1
                    ELSE spc' = ServerEnd("done") /\ si' = si
    /\ UNCHANGED <<sock, other, ownerVariant, serverVariant, conn, cpc, ci, cObj, sObj, scaled, c2s,
                   c2sLog, cGot, sGot, ops, shown, fault, cEv>>
    /\ UNCHANGED <<wireVars, scaleVars, codecVars, slotVars>>

----------------------------------------------------------------------------
(* A second owner process that connects after the first *)

\* it has not been started
NoOther == [pc |-> "absent", sent |-> <<>>, unread |-> <<>>]

\* the frames the second owner gets to write
MaxOtherFrames == 1

\* connect(): while the server process lives the kernel completes the
\* connection into the listen queue (backlog 3); once it is gone, refused
OtherConnect ==
    /\ other.pc = "absent"
    /\ conn
    /\ IF Terminal(spc)
       THEN /\ other' = [other EXCEPT !.pc = "refused"]
            /\ sock' = sock
       ELSE /\ other' = [other EXCEPT !.pc = "handshake"]
            /\ sock' = [sock EXCEPT !.backlog = Append(@, "other")]
    /\ UNCHANGED <<ownerVariant, serverVariant, conn, cpc, ci, spc, si, cObj, sObj, scaled,
                   c2s, s2c, c2sLog, s2cLog, cGot, sGot, ops, shown, fault, cEv, sEv>>
    /\ UNCHANGED <<wireVars, scaleVars, codecVars, slotVars>>

\* its send_data calls: the kernel takes the bytes of a queued connection;
\* after the server process has ended the connection is reset
OtherSend ==
    /\ other.pc = "handshake"
    /\ Len(other.sent) < MaxOtherFrames
    /\ IF Terminal(spc)
       THEN other' = [other EXCEPT !.pc = "reset"]
       ELSE LET name == OwnerHandshake(ownerVariant)[Len(other.sent) + 1]
                x    == [f |-> KeyGen(ownerVariant)[name], full |-> TRUE]
            IN  other' = [other EXCEPT !.sent = Append(@, x), !.unread = Append(@, x)]
    /\ UNCHANGED <<ownerVariant, serverVariant, conn, cpc, ci, spc, si, cObj, sObj, scaled,
                   c2s, s2c, c2sLog, s2cLog, cGot, sGot, ops, shown, fault, cEv, sEv, sock>>
    /\ UNCHANGED <<wireVars, scaleVars, codecVars, slotVars>>

----------------------------------------------------------------------------
(* The system *)

NoObj == [n \in {} |-> EmptyStr]

\* the byte-level transport is not in use
WireIdle ==
    /\ toSend = <<>> /\ wpc = "idle" /\ sendLog = <<>> /\ stream = <<>>
    /\ rpc = "idle" /\ data_size = 0 /\ recvLog = <<>>

\* no operand pair is under study
ScaleIdle == operands = <<>> /\ outcome = <<>>

\* no typed amount is under study
CodecIdle == typed = <<>> /\ cast = <<>>

\* no entered list is under study
SlotsIdle == entered = <<>> /\ filled = <<>>

Init ==
    /\ ownerVariant \in Variants
    /\ serverVariant \in Variants
    /\ conn = FALSE
    /\ cpc = "connect" /\ ci = 1
    /\ spc = "start" /\ si = 1
    /\ cObj = NoObj
    /\ sObj = NoObj
    /\ scaled = NoScaled
    /\ c2s = <<>> /\ s2c = <<>>
    /\ c2sLog = <<>> /\ s2cLog = <<>>
    /\ cGot = <<>> /\ sGot = <<>>
    /\ ops = <<>>
    /\ shown = NoObj
    /\ fault = "none"
    /\ cEv = <<>> /\ sEv = <<>>
    /\ sock = NoSock /\ other = NoOther
    /\ WireIdle
    /\ ScaleIdle
    /\ CodecIdle
    /\ SlotsIdle

Next ==
    \/ OwnerConnect
    \/ OwnerSend
    \/ OwnerEnterDataGoal
    \/ OwnerEnterDataSavings
    \/ OwnerReceive
    \/ OwnerDecryptGoal
    \/ OwnerDecryptSavings
    \/ ServerListen
    \/ ServerAccept
    \/ ServerReceive
    \/ ServerEvaluateGoal
    \/ ServerEvaluateSavings
    \/ ServerSend
    \/ OtherConnect
    \/ OtherSend

Spec == Init /\ [][Next]_vars

\* the same session, the client being any of the deviating ones
InitPeer ==
    /\ ownerVariant \in Variants
    /\ serverVariant \in Variants
    /\ fault \in Faults(ownerVariant)
    /\ conn = FALSE
    /\ cpc = "connect" /\ ci = 1
    /\ spc = "start" /\ si = 1
    /\ cObj = NoObj
    /\ sObj = NoObj
    /\ scaled = NoScaled
    /\ c2s = <<>> /\ s2c = <<>>
    /\ c2sLog = <<>> /\ s2cLog = <<>>
    /\ cGot = <<>> /\ sGot = <<>>
    /\ ops = <<>>
    /\ shown = NoObj
    /\ cEv = <<>> /\ sEv = <<>>
    /\ sock = NoSock /\ other = NoOther
    /\ WireIdle
    /\ ScaleIdle
    /\ CodecIdle
    /\ SlotsIdle

SpecPeer == InitPeer /\ [][Next]_vars

\* the steps of the owner process and of the compute party process
OwnerStep ==
    \/ OwnerConnect
    \/ OwnerSend
    \/ OwnerEnterDataGoal
    \/ OwnerEnterDataSavings
    \/ OwnerReceive
    \/ OwnerDecryptGoal
    \/ OwnerDecryptSavings

ServerStep ==
    \/ ServerListen
    \/ ServerAccept
    \/ ServerReceive
    \/ ServerEvaluateGoal
    \/ ServerEvaluateSavings
    \/ ServerSend

\* both are running processes: each takes its next statement when it can
\* (a blocked recv or accept returns once data or a connection is there, and
\* the user answers the prompts); a second owner is under no obligation
SpecFair == Init /\ [][Next]_vars /\ WF_vars(OwnerStep) /\ WF_vars(ServerStep)

----------------------------------------------------------------------------
(* send_data and receive_data, one send() or recv() call at a time *)

\* values a byte takes in the model (256 in the program)
ByteBase == 2

\* sizeof(size_t) is 8 in the program; the model keeps a header of two bytes
HeaderBytes == 2

\* most frames one sender writes
MaxFrames == 2

\* a maximum frame size a receiver could enforce; the program has none
MaxFrameSize == 2

Bytes == 0..(ByteBase - 1)

\* the payloads a sender passes to send_data: empty, one byte, longer
Payloads == {<<>>, <<1>>, <<0, 1>>, <<1, 1, 0>>}

RECURSIVE SizeLimit(_)
\* the number of values a size_t of k bytes takes
SizeLimit(k) == IF k = 0 THEN 1 ELSE ByteBase * SizeLimit(k - 1)

RECURSIVE SizeBytesOf(_, _)
SizeBytesOf(n, k) ==
    IF k = 0 THEN <<>> ELSE <<n % ByteBase>> \o SizeBytesOf(n \div ByteBase, k - 1)

\* the bytes of a size_t in host order, low byte first
SizeBytes(n) == SizeBytesOf(n, HeaderBytes)

RECURSIVE SizeValue(_)
SizeValue(b) == IF b = <<>> THEN 0 ELSE Head(b) + ByteBase * SizeValue(Tail(b))

Prefix(q, k) == SubSeq(q, 1, k)

Suffix(q, k) == SubSeq(q, k + 1, Len(q))

\* vector<char> buffer(n): n zero bytes
Zeros(n) == [i \in 1..n |-> 0]

\* send(sock, buf, n, 0): -1, or the number of bytes taken, which may be short
SendCounts(n) == {-1} \cup (IF n = 0 THEN {0} ELSE 1..n)

\* how many frames the receiver's caller asks for
FramesExpected == Len(sendLog) + Len(toSend)

\* send_data: size_t data_size = data.size(); the first send()
SendDataHeader ==
    /\ wpc = "ready" /\ toSend # <<>>
    /\ LET data == Head(toSend)
       IN  \E n \in SendCounts(HeaderBytes) :
             IF n = -1
             THEN /\ sendLog' = Append(sendLog, [x |-> data, wrote |-> <<>>, ret |-> "false"])
                  /\ wpc' = "closed"
                  /\ stream' = stream
             ELSE /\ sendLog' = Append(sendLog,
                        [x |-> data, wrote |-> Prefix(SizeBytes(Len(data)), n),
                         ret |-> "in_call"])
                  /\ wpc' = "payload"
                  /\ stream' = stream \o Prefix(SizeBytes(Len(data)), n)
    /\ toSend' = Tail(toSend)
    /\ UNCHANGED <<rpc, data_size, recvLog>>
    /\ UNCHANGED <<sessionVars, scaleVars, codecVars, slotVars>>

\* send_data: the second send(), then return
SendDataPayload ==
    /\ wpc = "payload"
    /\ LET cur == sendLog[Len(sendLog)]
       IN  \E n \in SendCounts(Len(cur.x)) :
             IF n = -1
             THEN /\ sendLog' = [sendLog EXCEPT ![Len(sendLog)].ret = "false"]
                  /\ wpc' = "closed"
                  /\ stream' = stream
             ELSE /\ sendLog' = [sendLog EXCEPT ![Len(sendLog)].ret = "true",
                                                ![Len(sendLog)].wrote = @ \o Prefix(cur.x, n)]
                  /\ wpc' = "ready"
                  /\ stream' = stream \o Prefix(cur.x, n)
    /\ UNCHANGED <<toSend, rpc, data_size, recvLog>>
    /\ UNCHANGED <<sessionVars, scaleVars, codecVars, slotVars>>

\* the sender has nothing more to send and its process ends
SenderExits ==
    /\ wpc = "ready" /\ toSend = <<>>
    /\ wpc' = "closed"
    /\ UNCHANGED <<toSend, sendLog, stream, rpc, data_size, recvLog>>
    /\ UNCHANGED <<sessionVars, scaleVars, codecVars, slotVars>>


\* the values data_size may hold after recv() stored only the first k bytes
\* of the header into it: the other bytes are whatever the stack held
SizeAfterShortRead(got) ==
    {v \in 0..(SizeLimit(HeaderBytes) - 1) : Prefix(SizeBytes(v), Len(got)) = got}

\* receive_data: size_t data_size; the first recv(), MSG_WAITALL; then
\* vector<char> buffer(data_size).  recv blocks until the header is there or
\* the peer has closed; only -1 is taken as failure.  The caller makes no
\* further call after one that met the end of the stream ("" makes it return,
\* any other buffer makes its load throw)
ReceiveDataHeader ==
    /\ rpc = "header" /\ Len(recvLog) < FramesExpected
    /\ \/ /\ Len(stream) >= HeaderBytes
          /\ data_size' = SizeValue(Prefix(stream, HeaderBytes))
          /\ stream' = Suffix(stream, HeaderBytes)
          /\ rpc' = "payload"
          /\ recvLog' = recvLog
       \/ /\ Len(stream) < HeaderBytes /\ wpc = "closed"
          /\ \/ /\ data_size' \in SizeAfterShortRead(stream)
                /\ stream' = <<>>
                /\ rpc' = "payload_after_eof"
                /\ recvLog' = recvLog
             \/ /\ recvLog' = Append(recvLog, [ret |-> <<>>, how |-> "error"])
                /\ rpc' = "stopped"
                /\ UNCHANGED <<stream, data_size>>
    /\ UNCHANGED <<toSend, wpc, sendLog>>
    /\ UNCHANGED <<sessionVars, scaleVars, codecVars, slotVars>>

\* receive_data: the second recv() into the buffer, then return the buffer
ReceiveDataPayload ==
    /\ rpc \in {"payload", "payload_after_eof"}
    /\ \/ /\ Len(stream) >= data_size
          /\ recvLog' = Append(recvLog, [ret |-> Prefix(stream, data_size), how |-> "whole"])
          /\ stream' = Suffix(stream, data_size)
          /\ rpc' = IF rpc = "payload" THEN "header" ELSE "stopped"
       \/ /\ Len(stream) < data_size /\ wpc = "closed"
          /\ \/ recvLog' = Append(recvLog,
                     [ret |-> stream \o Zeros(data_size - Len(stream)), how |-> "short"])
             \/ recvLog' = Append(recvLog, [ret |-> <<>>, how |-> "error"])
          /\ stream' = <<>>
          /\ rpc' = "stopped"
    /\ UNCHANGED <<toSend, wpc, sendLog, data_size>>
    /\ UNCHANGED <<sessionVars, scaleVars, codecVars, slotVars>>

\* nothing of the session is in use
SessionIdle ==
    /\ ownerVariant = "goal" /\ serverVariant = "goal" /\ fault = "none"
    /\ conn = FALSE
    /\ cpc = "idle" /\ ci = 1
    /\ spc = "idle" /\ si = 1
    /\ cObj = NoObj /\ sObj = NoObj
    /\ scaled = NoScaled
    /\ c2s = <<>> /\ s2c = <<>>
    /\ c2sLog = <<>> /\ s2cLog = <<>>
    /\ cGot = <<>> /\ sGot = <<>>
    /\ ops = <<>>
    /\ shown = NoObj
    /\ cEv = <<>> /\ sEv = <<>>
    /\ sock = NoSock /\ other = NoOther

InitWire ==
    /\ toSend \in SeqsUpTo(Payloads, MaxFrames)
    /\ wpc = "ready"
    /\ sendLog = <<>>
    /\ stream = <<>>
    /\ rpc = "header"
    /\ data_size = 0
    /\ recvLog = <<>>
    /\ SessionIdle
    /\ ScaleIdle
    /\ CodecIdle
    /\ SlotsIdle

NextWire ==
    \/ SendDataHeader
    \/ SendDataPayload
    \/ SenderExits
    \/ ReceiveDataHeader
    \/ ReceiveDataPayload

SpecWire == InitWire /\ [][NextWire]_vars

----------------------------------------------------------------------------
(* The evaluator operations on operands of any scale exponent *)

\* the largest scale exponent of an operand
MaxExp == 2

\* slot residues of the operands: zero, a small value, a negative value
OperandValues == {0, 15, PlainModulus - 3}

\* a ciphertext as the compute party holds it after load
Operands ==
    {Obj("Ciphertext", v, e, "operand") :
        v \in [1..SlotCount -> OperandValues], e \in 1..MaxExp}

\* evaluator.add(a, b, destination)
EvaluatorAdd ==
    /\ operands # <<>> /\ outcome = <<>>
    /\ outcome' = [op |-> "add", res |-> Add(operands[1], operands[2], "result")]
    /\ UNCHANGED <<operands, sessionVars, wireVars, codecVars, slotVars>>

\* evaluator.sub(a, b, destination)
EvaluatorSub ==
    /\ operands # <<>> /\ outcome = <<>>
    /\ outcome' = [op |-> "sub", res |-> Sub(operands[1], operands[2], "result")]
    /\ UNCHANGED <<operands, sessionVars, wireVars, codecVars, slotVars>>

\* evaluator.multiply_plain(a, plain, destination), the plain operand being
\* the decryption of the second one; its slots are small
EvaluatorMultiplyPlain ==
    /\ operands # <<>> /\ outcome = <<>>
    /\ \A i \in 1..SlotCount : Slot(operands[2], i) <= 15
    /\ outcome' = [op |-> "multiply_plain",
                   res |-> MultiplyPlain(operands[1],
                                         Decrypt(operands[2], KeyObj("SecretKey")), "result")]
    /\ UNCHANGED <<operands, sessionVars, wireVars, codecVars, slotVars>>

InitScale ==
    /\ operands \in Operands \X Operands
    /\ outcome = <<>>
    /\ SessionIdle
    /\ WireIdle
    /\ CodecIdle
    /\ SlotsIdle

NextScale ==
    \/ EvaluatorAdd
    \/ EvaluatorSub
    \/ EvaluatorMultiplyPlain

SpecScale == InitScale /\ [][NextScale]_vars

----------------------------------------------------------------------------
(* The scaling statement applied to one typed amount *)

\* the decimal exponent of an amount typed in scientific notation ("1e20")
BigExponent == 20

\* hundredths of the typed amounts: negative and positive, small and large
TypedHundredths == {-100001, -101, -1, 0, 1, 100, 50074}

\* what stod and cin >> value accept: any decimal, of either sign, with or
\* without an exponent; the amount is (c/100 + t/1000) * 10^e
TypedAmounts ==
    {[c |-> c, t |-> t, e |-> e] :
        c \in TypedHundredths, t \in 0..9, e \in {0, BigExponent}}

\* the decimal digits of a natural number, most significant first
RECURSIVE Digits(_)
Digits(n) == IF n < 10 THEN <<n>> ELSE Append(Digits(n \div 10), n % 10)

\* the natural number a short digit sequence stands for
RECURSIVE IntOf(_)
IntOf(s) == IF s = <<>> THEN 0 ELSE 10 * IntOf(SubSeq(s, 1, Len(s) - 1)) + s[Len(s)]

\* an integer of any size: its sign and the digits of its magnitude
Big(neg, digits) == [neg |-> neg, digits |-> digits]

\* INT64_MAX = 9223372036854775807 and the magnitude of INT64_MIN
Int64MaxDigits == <<9, 2, 2, 3, 3, 7, 2, 0, 3, 6, 8, 5, 4, 7, 7, 5, 8, 0, 7>>

Int64MinDigits == <<9, 2, 2, 3, 3, 7, 2, 0, 3, 6, 8, 5, 4, 7, 7, 5, 8, 0, 8>>

RECURSIVE LexLeq(_, _)
LexLeq(a, b) ==
    IF a = <<>> THEN TRUE
    ELSE IF a[1] # b[1] THEN a[1] < b[1]
    ELSE LexLeq(Tail(a), Tail(b))

\* comparison of two magnitudes without leading zeros
MagLeq(a, b) == Len(a) < Len(b) \/ (Len(a) = Len(b) /\ LexLeq(a, b))

\* round(d * SCALE_FACTOR): the nearest integer to a hundred times the amount
Rounded(d) ==
    IF d.e = 0
    THEN LET r == ToScaled(Amt(d.c, d.t)) IN Big(r < 0, Digits(Abs(r)))
    ELSE LET m == 10 * d.c + d.t
         IN  Big(m < 0, IF m = 0 THEN <<0>> ELSE Digits(Abs(m)) \o Zeros(d.e - 1))

\* a value of type double that an int64_t can hold
FitsInt64(x) == MagLeq(x.digits, IF x.neg THEN Int64MinDigits ELSE Int64MaxDigits)

\* static_cast<int64_t>(x): the value itself when it fits; otherwise the
\* conversion is undefined and a build stores INT64_MIN (x86-64) or the
\* nearest bound (AArch64)
StaticCastInt64(x) ==
    IF FitsInt64(x) THEN {x}
    ELSE {Big(TRUE, Int64MinDigits), Big(FALSE, Int64MaxDigits)}

\* static_cast<double>(x) / SCALE_FACTOR, in thousandths
FromScaled(x) == Big(x.neg, IF x.digits = <<0>> THEN <<0>> ELSE Append(x.digits, 0))

\* int64_t scaled = static_cast<int64_t>(round(d * SCALE_FACTOR)), encoded
\* afterwards at scale exponent 1
ScaleAmount ==
    /\ typed # <<>> /\ cast = <<>>
    /\ \E r \in StaticCastInt64(Rounded(typed)) :
           cast' = [neg |-> r.neg, digits |-> r.digits, exp |-> 1]
    /\ UNCHANGED <<typed, sessionVars, wireVars, scaleVars, slotVars>>

InitCodec ==
    /\ typed \in TypedAmounts
    /\ cast = <<>>
    /\ SessionIdle
    /\ WireIdle
    /\ ScaleIdle
    /\ SlotsIdle

NextCodec == ScaleAmount

SpecCodec == InitCodec /\ [][NextCodec]_vars

----------------------------------------------------------------------------
(* The savings owner's filling of the slot vectors *)

\* 0.0 and the int64 0
ZeroAmount == [c |-> 0, t |-> 0, e |-> 0]

ZeroScaled == Big(FALSE, <<0>>)

\* amounts typed at the income prompt and at the expense prompt
EnteredIncome == {[c |-> 150075, t |-> 0, e |-> 0], [c |-> 100, t |-> 5, e |-> BigExponent]}

EnteredExpense == {[c |-> 12000, t |-> 6, e |-> 0], [c |-> -101, t |-> 0, e |-> BigExponent]}

\* if (d.empty()) d.push_back(0.0)
PushBackIfEmpty(d) == IF d = <<>> THEN <<ZeroAmount>> ELSE d

\* vector<double>::resize(n): cut, or pad with 0.0
ResizeDoubles(d, n) == [i \in 1..n |-> IF i <= Len(d) THEN d[i] ELSE ZeroAmount]

\* the indices i of `for (size_t i = 0; i < d.size(); ++i) v[i] = ...`
WriteIndices(d) == {i - 1 : i \in 1..Len(d)}

\* vector<int64_t>(slot_count, 0LL) after the loop has stored
\* static_cast<int64_t>(round(d[i] * SCALE_FACTOR)) at every index it can hold
ScaledVectors(d) ==
    LET stored(i) == IF i <= Len(d) THEN StaticCastInt64(Rounded(d[i])) ELSE {ZeroScaled}
    IN  {v \in [1..SlotCount -> UNION {stored(i) : i \in 1..SlotCount}] :
            \A i \in 1..SlotCount : v[i] \in stored(i)}

\* savings client: pad the empty list, cut both lists to slot_count when the
\* longer one exceeds it, and scale them into the two slot vectors
OwnerFillSlots ==
    /\ entered # <<>> /\ filled = <<>>
    /\ LET income0 == PushBackIfEmpty(entered.income)
           expense0 == PushBackIfEmpty(entered.expense)
           max_data_size == IF Len(income0) >= Len(expense0) THEN Len(income0)
                                                             ELSE Len(expense0)
           truncating == max_data_size > SlotCount
           income_double_data ==
               IF truncating THEN ResizeDoubles(income0, SlotCount) ELSE income0
           expense_double_data ==
               IF truncating THEN ResizeDoubles(expense0, SlotCount) ELSE expense0
       IN  \E income_scaled_data \in ScaledVectors(income_double_data),
              expense_scaled_data \in ScaledVectors(expense_double_data) :
             filled' = [warning |-> truncating,
                        income_double_data |-> income_double_data,
                        expense_double_data |-> expense_double_data,
                        income_writes |-> WriteIndices(income_double_data),
                        expense_writes |-> WriteIndices(expense_double_data),
                        income_scaled_data |-> income_scaled_data,
                        expense_scaled_data |-> expense_scaled_data]
    /\ UNCHANGED <<entered, sessionVars, wireVars, scaleVars, codecVars>>

InitSlots ==
    /\ entered \in [income : SeqsUpTo(EnteredIncome, MaxEntries),
                    expense : SeqsUpTo(EnteredExpense, MaxEntries)]
    /\ filled = <<>>
    /\ SessionIdle
    /\ WireIdle
    /\ ScaleIdle
    /\ CodecIdle

NextSlots == OwnerFillSlots

SpecSlots == InitSlots /\ [][NextSlots]_vars

----------------------------------------------------------------------------
(* Properties *)

SameVariant == ownerVariant = serverVariant

RECURSIVE Pow(_, _)
Pow(b, e) == IF e = 0 THEN 1 ELSE b * Pow(b, e - 1)

\* the roles of objects that hold a figure the user typed
OwnerFigures ==
    {"total_income", "essential_expenses", "non_essential_expenses", "savings_goal",
     "income", "expense"}

\* the objects the compute party has been handed: written to it, or loaded by it
HandedToServer ==
    {c2sLog[i].f : i \in 1..Len(c2sLog)} \cup {sObj[n] : n \in DOMAIN sObj}

C2_SecretKeyStaysHome ==
    \A o \in HandedToServer :
        /\ o.kind # "SecretKey"
        /\ o.role = "none" =>
             o.kind \in {"EncryptionParameters", "PublicKey", "RelinKeys"}
                        \cup (IF ownerVariant = "goal" THEN {"GaloisKeys"} ELSE {})

C2_Witness ==
    /\ cpc = "done"
    /\ "secret_key" \in DOMAIN cObj
    /\ \E i \in 1..Len(c2sLog) : c2sLog[i].f.kind = "GaloisKeys"

\* the order of section 4.3: parameters, encryption key, relinearization key,
\* then the Galois key in the variant that has one
HandshakeKinds(v) ==
    IF v = "goal" THEN <<"EncryptionParameters", "PublicKey", "RelinKeys", "GaloisKeys">>
                  ELSE <<"EncryptionParameters", "PublicKey", "RelinKeys">>

\* C3: the owner writes parameters, public key, relinearization key and (goal
\* variant) Galois key in that order, one frame each, and no input frame before
\* them; the compute party loads the frames it reads in that same order.
C3_HandshakeOrder ==
    /\ \A i \in 1..Len(c2sLog) :
         IF i <= Len(HandshakeKinds(ownerVariant))
         THEN c2sLog[i].f.kind = HandshakeKinds(ownerVariant)[i]
         ELSE c2sLog[i].f.role \in OwnerFigures
    /\ \A i \in 1..Len(HandshakeKinds(serverVariant)) :
         LET e == ServerHandshake(serverVariant)[i]
         IN  e.name \in DOMAIN sObj =>
               /\ sObj[e.name].kind = HandshakeKinds(serverVariant)[i]
               /\ sObj[e.name] = c2sLog[i].f
               /\ \A j \in 1..(i - 1) :
                    ServerHandshake(serverVariant)[j].name \in DOMAIN sObj

C3_Witness ==
    /\ ownerVariant = "goal" /\ serverVariant = "goal"
    /\ spc = "inputs" /\ "galois_keys" \in DOMAIN sObj
    /\ cpc = "inputs" /\ ci = 2

\* every frame the compute party's variant reads before it evaluates
ServerFrames(v) == ServerHandshake(v) \o ServerInputs(v)

\* C4: the evaluator performs no operation before every handshake frame and
\* every input frame of the variant has been received whole and loaded.
C4_PipelineOnlyAfterReady ==
    ops # <<>> =>
        /\ Len(sGot) = Len(ServerFrames(serverVariant))
        /\ \A i \in 1..Len(ServerFrames(serverVariant)) :
             LET e == ServerFrames(serverVariant)[i]
             IN  /\ sGot[i].cause = "none" /\ ~sGot[i].crash
                 /\ c2sLog[i].full /\ sGot[i].ret = c2sLog[i].f
                 /\ e.name \in DOMAIN sObj
                 /\ sObj[e.name] = sGot[i].ret
                 /\ sObj[e.name].kind = e.kind

C4_Witness == ops # <<>> /\ spc = "results"

\* C5 (as claimed): for all scaled inputs the goal owner decodes
\* totalExpenses = essential + nonEssential, netIncome = income - totalExpenses
\* and goalDifference = netIncome - goal.
C5_GoalPipelineExact ==
    (cpc = "done" /\ ownerVariant = "goal") =>
        /\ shown["total_expenses"].raw[1] = scaled.essential + scaled.non_essential
        /\ shown["net_income"].raw[1] =
               scaled.income[1] - (scaled.essential + scaled.non_essential)
        /\ shown["goal_difference"].raw[1] =
               scaled.income[1] - (scaled.essential + scaled.non_essential) - scaled.goal

\* C6 (as claimed): in every slot the savings owner decodes
\* netIncome = income - expense and savingsContribution = income * 15.
C6_SavingsPipelineExact ==
    (cpc = "done" /\ ownerVariant = "savings") =>
        \A i \in 1..SlotCount :
            /\ shown["net_income"].raw[i] = scaled.income[i] - scaled.expense[i]
            /\ shown["savings_contribution"].raw[i] = scaled.income[i] * 15

\* C5, C6: the divergence is confined to results beyond the signed range of the
\* plain modulus (C33); within it the decoded values are the exact integers.
PipelinesExactWithinRange ==
    /\ (cpc = "done" /\ ownerVariant = "goal"
          /\ scaled.essential + scaled.non_essential <= PlainModulus \div 2)
       => C5_GoalPipelineExact
    /\ (cpc = "done" /\ ownerVariant = "savings"
          /\ \A i \in 1..SlotCount : scaled.income[i] * 15 <= PlainModulus \div 2)
       => C6_SavingsPipelineExact

\* C7: every printed value is divided by ScaleFactor raised to the scale
\* exponent its ciphertext carries: 100 for the totals (exponent 1), 100 * 100
\* for the savings contribution (exponent 2).
C7_DescaledByExponent ==
    \A role \in DOMAIN shown :
        /\ shown[role].div = Pow(ScaleFactor, shown[role].exp)
        /\ shown[role].exp = (IF role = "savings_contribution" THEN 2 ELSE 1)

C7_Witness ==
    /\ cpc = "done" /\ ownerVariant = "savings"
    /\ shown["savings_contribution"].div = 10000
    /\ shown["net_income"].div = 100

\* C8: between an owner and a compute party of the same variant, the i-th
\* result frame written is the one the owner loads i-th, and the owner decodes
\* it under the role the compute party computed it for.
C8_ResultOrder ==
    SameVariant =>
        /\ \A i \in 1..Len(OwnerResults(ownerVariant)) :
             LET r == OwnerResults(ownerVariant)[i]
             IN  r.name \in DOMAIN cObj =>
                   /\ cObj[r.name] = s2cLog[i].f
                   /\ cObj[r.name] = sObj[ServerResults(serverVariant)[i]]
                   /\ cObj[r.name].role = r.role
        /\ \A role \in DOMAIN shown : shown[role].from = role

C8_Witness ==
    /\ ownerVariant = "goal" /\ serverVariant = "goal" /\ cpc = "done"
    /\ shown["goal_difference"].from = "goal_difference"

\* result frames the owner has received whole
ResultsReceived == Cardinality({i \in 1..Len(cGot) : cGot[i].cause = "none"})

\* C9 (as claimed): once both sides have stopped, the owner has received every
\* result frame of its variant or none.
C9_AllOrNothingResults ==
    (Terminal(cpc) /\ Terminal(spc)) =>
        ResultsReceived \in {0, Len(OwnerResults(ownerVariant))}

\* C10 (as claimed): a receive_data call that meets peer closure (recv returns
\* 0 or a short count) reports failure: it returns the empty string, nothing
\* throws, and the caller stops with `return 1` instead of loading the buffer.
C10_ClosureIsTransportError ==
    /\ \A i \in 1..Len(sGot) :
         sGot[i].cause \in {"closed_in_header", "closed_in_payload"} =>
             sGot[i].ret = EmptyStr /\ ~sGot[i].crash /\ spc = "failed"
    /\ \A i \in 1..Len(cGot) :
         cGot[i].cause \in {"closed_in_header", "closed_in_payload"} =>
             cGot[i].ret = EmptyStr /\ ~cGot[i].crash /\ cpc = "failed"

\* frames the sender wrote whole, as values
WholeFrames(log) == {log[j].f : j \in {k \in 1..Len(log) : log[k].full}}

\* C11 (as claimed): every value receive_data returns as a message (not the
\* empty failure value, not a throw) is the whole payload of one frame the peer
\* wrote with send_data, also when the peer failed or closed between the
\* header and the end of the payload.
C11_FrameAtomicity ==
    /\ \A i \in 1..Len(sGot) :
         (~sGot[i].crash /\ sGot[i].ret # EmptyStr) => sGot[i].ret \in WholeFrames(c2sLog)
    /\ \A i \in 1..Len(cGot) :
         (~cGot[i].crash /\ cGot[i].ret # EmptyStr) => cGot[i].ret \in WholeFrames(s2cLog)

\* C12 (as claimed): when the client leaves out the relinearization-key frame,
\* the compute party rejects the session before it reads an input frame:
\* receive_data hands it no input frame, relin_keys never holds a later frame
\* and the input phase is never reached.
C12_MissingRelinKeyRejected ==
    fault = "relin_keys" =>
        /\ \A i \in 1..Len(sGot) : sGot[i].ret.role \notin OwnerFigures
        /\ "relin_keys" \in DOMAIN sObj => sObj["relin_keys"].kind = "RelinKeys"
        /\ spc \notin {"inputs", "evaluate", "results", "done"}

\* the figure each input variable of the compute party is computed with
ServerRole(name) ==
    CASE name = "encrypted_total_income" -> "total_income"
      [] name = "encoded_monthly_savings_goal" -> "savings_goal"
      [] name = "encrypted_essential_expenses_received" -> "essential_expenses"
      [] name = "encrypted_non_essential_expenses_received" -> "non_essential_expenses"
      [] name = "encrypted_income" -> "income"
      [] name = "encrypted_expense" -> "expense"
      [] OTHER -> "none"

\* the i-th frame the compute party received is not the one its i-th position is for
OutOfPlace(i) ==
    LET e == ServerFrames(serverVariant)[i]
    IN  /\ sGot[i].cause = "none"
        /\ \/ sGot[i].ret.kind # e.kind
           \/ ServerRole(e.name) # "none" /\ sGot[i].ret.role # ServerRole(e.name)

\* C13 (as claimed): a whole frame that arrives where another frame is
\* expected ends the session: the compute party stops, does not keep the frame
\* in the variable of that position and evaluates nothing.
C13_OutOfOrderIsFatal ==
    \A i \in 1..Len(sGot) :
        OutOfPlace(i) =>
            /\ Terminal(spc)
            /\ ops = <<>>
            /\ LET e == ServerFrames(serverVariant)[i]
               IN  e.name \in DOMAIN sObj => sObj[e.name] # sGot[i].ret

\* the same statement for the repository's own four client and server pairs
MismatchedVariantsEndAtFrameFour ==
    ~SameVariant =>
        /\ spc \notin {"inputs", "evaluate", "results", "done"} \/ serverVariant = "savings"
        /\ ops = <<>>
        /\ \A i \in 1..Len(sGot) : OutOfPlace(i) => i = 4 /\ spc = "crashed"

\* C14 (as claimed): once the parameters frame has loaded into a context whose
\* parameters are not set, the compute party takes no key or input frame from
\* the channel, performs no homomorphic operation and sends no result.
C14_InvalidParametersFatal ==
    ("parms" \in DOMAIN sObj /\ sObj["parms"] = InvalidParms) =>
        /\ \A i \in 2..Len(sGot) : sGot[i].cause # "none"
        /\ ops = <<>>
        /\ s2cLog = <<>>

\* a send_data call that returned false, a receive_data call that returned ""
Failure(e) ==
    \/ e.op = "send_data" /\ e.arg = "false"
    \/ e.op = "receive_data" /\ e.arg = "empty"

\* after a failed call a side only prints and returns
NoActivityAfterFailure(ev) ==
    \A i \in 1..Len(ev) :
        Failure(ev[i]) => \A j \in (i + 1)..Len(ev) : ev[j].op \in {"cerr", "return"}

\* C15: after a send_data call returned false or a receive_data call returned
\* the empty string, the side that made the call makes no further send_data
\* or receive_data call, loads nothing and performs no evaluator operation:
\* it is stopped, with exit status 1.
C15_FailureAborts ==
    /\ NoActivityAfterFailure(cEv)
    /\ NoActivityAfterFailure(sEv)
    /\ (\E i \in 1..Len(cEv) : Failure(cEv[i])) =>
           cpc = "failed" /\ cEv[Len(cEv)] = Ev("return", "1", cEv[Len(cEv)].of)
    /\ (\E i \in 1..Len(sEv) : Failure(sEv[i])) =>
           spc = "failed" /\ sEv[Len(sEv)] = Ev("return", "1", sEv[Len(sEv)].of)

C15_Witness ==
    /\ \E i \in 1..Len(cEv) : cEv[i].op = "send_data" /\ cEv[i].arg = "false"
    /\ \E i \in 1..Len(sEv) : sEv[i].op = "receive_data" /\ sEv[i].arg = "empty"
    /\ Len(c2sLog) >= 2

\* the side called close() on its socket; it wrote an error line to stderr
Closed(ev) == \E i \in 1..Len(ev) : ev[i].op = "close"

Reported(ev) == \E i \in 1..Len(ev) : ev[i].op = "cerr"

\* C16 (as claimed): a side that ends a connected session on an error path
\* (return 1, an uncaught exception, a signal) has closed its socket and has
\* written an error line that tells the operator what failed.
C16_CleanTermination ==
    /\ (conn /\ cpc \in {"failed", "crashed"}) => Closed(cEv) /\ Reported(cEv)
    /\ spc \in {"failed", "crashed"} => Closed(sEv) /\ Reported(sEv)

\* C17 (as claimed): receive_data does not allocate a buffer for, or read the
\* payload of, a frame whose length header, read from an open channel, exceeds
\* the maximum frame size, and returns no whole message of more than that size.
C17_OversizedFrameRejected ==
    /\ (rpc = "payload" /\ wpc # "closed") => data_size <= MaxFrameSize
    /\ \A i \in 1..Len(recvLog) :
         recvLog[i].how = "whole" => Len(recvLog[i].ret) <= MaxFrameSize

\* the whole frame of payload x as send_data is meant to write it
WholeFrame(x) == SizeBytes(Len(x)) \o x

\* C18 (as claimed): the i-th receive_data call returns exactly the payload of
\* the i-th send_data call whenever the send_data calls up to it returned
\* true; so frames arrive in order, with their boundaries, for payloads of
\* length 0, 1 and more.
C18_FramingRoundTrip ==
    \A i \in 1..Len(recvLog) :
        (i <= Len(sendLog) /\ \A j \in 1..i : sendLog[j].ret = "true") =>
            recvLog[i].ret = sendLog[i].x

\* the round trip when every send() took all the bytes it was given
RoundTripWhenWritesComplete ==
    \A i \in 1..Len(recvLog) :
        (i <= Len(sendLog) /\ \A j \in 1..i : sendLog[j].wrote = WholeFrame(sendLog[j].x)) =>
            recvLog[i].ret = sendLog[i].x /\ recvLog[i].how = "whole"

\* C19 (as claimed): send_data returns true only when it has written the whole
\* length header and the whole payload.
C19_ShortWritesCompleted ==
    \A i \in 1..Len(sendLog) :
        sendLog[i].ret = "true" => sendLog[i].wrote = WholeFrame(sendLog[i].x)

\* C20 (as claimed): an addition or subtraction of operands whose scale
\* exponents differ yields no value (it fails); one of equal exponents keeps
\* the exponent; a multiplication yields the sum of the exponents.
C20_ScaleExponentLaw ==
    outcome # <<>> =>
        LET a == operands[1]
            b == operands[2]
        IN  IF outcome.op \in {"add", "sub"}
            THEN IF a.exp # b.exp THEN outcome.res = Garbage
                 ELSE outcome.res.exp = a.exp
            ELSE outcome.res.exp = a.exp + b.exp

\* the part of the law the evaluator keeps: equal exponents stay, products add them
ExponentsWhenOperandsAgree ==
    (outcome # <<>> /\ (outcome.op = "multiply_plain" \/ operands[1].exp = operands[2].exp)) =>
        /\ outcome.res.kind = "Ciphertext"
        /\ outcome.res.exp = (IF outcome.op = "multiply_plain"
                              THEN operands[1].exp + operands[2].exp
                              ELSE operands[1].exp)

----------------------------------------------------------------------------
(* C21, C22: the fixed-point codec *)

\* the typed amount in thousandths
Thousandths(d) ==
    LET m == 10 * d.c + d.t
    IN  Big(m < 0, IF m = 0 THEN <<0>> ELSE Digits(Abs(m)) \o Zeros(d.e))

Signed(x) == IF x.neg THEN 0 - IntOf(x.digits) ELSE IntOf(x.digits)

\* the magnitude plus one
RECURSIVE Inc(_)
Inc(s) ==
    IF s = <<>> THEN <<1>>
    ELSE IF s[Len(s)] < 9 THEN [s EXCEPT ![Len(s)] = @ + 1]
    ELSE Append(Inc(SubSeq(s, 1, Len(s) - 1)), 0)

\* the magnitude plus ten
PlusTen(s) == Append(Inc(SubSeq(s, 1, Len(s) - 1)), s[Len(s)])

\* two values in thousandths differ by at most one hundredth
WithinOneHundredth(x, y) ==
    IF Len(x.digits) <= 9 /\ Len(y.digits) <= 9
    THEN Abs(Signed(x) - Signed(y)) <= 10
    ELSE /\ x.neg = y.neg
         /\ MagLeq(x.digits, PlusTen(y.digits))
         /\ MagLeq(y.digits, PlusTen(x.digits))

\* C21: for every amount accepted as input, descaling the scaled integer by
\* 100 gives a value within one hundredth of the amount
C21_CodecRoundTrip ==
    cast # <<>> => WithinOneHundredth(FromScaled(cast), Thousandths(typed))

\* the round trip of the amounts whose hundredfold an int64_t can hold
RoundTripWhenInRange ==
    (cast # <<>> /\ FitsInt64(Rounded(typed))) =>
        WithinOneHundredth(FromScaled(cast), Thousandths(typed))

\* the integer nearest to a tenth of t, an exact half going away from zero
RoundHalfAway(t) ==
    LET q   == SubSeq(t.digits, 1, Len(t.digits) - 1)
        up  == t.digits[Len(t.digits)] >= 5
        mag == IF q = <<>> THEN (IF up THEN <<1>> ELSE <<0>>)
               ELSE IF up THEN Inc(q) ELSE q
    IN  Big(t.neg /\ mag # <<0>>, mag)

\* C22: every typed amount, positive or negative, is converted to the integer
\* nearest to a hundred times the amount, an exact half rounded away from
\* zero, and the result carries scale exponent 1
C22_RoundsHalfAwayFromZero ==
    cast # <<>> =>
        /\ Big(cast.neg, cast.digits) = RoundHalfAway(Thousandths(typed))
        /\ cast.exp = 1

\* the rounding of the amounts whose hundredfold an int64_t can hold
RoundingWhenInRange ==
    (cast # <<>> /\ FitsInt64(Rounded(typed))) =>
        /\ Big(cast.neg, cast.digits) = RoundHalfAway(Thousandths(typed))
        /\ cast.exp = 1

----------------------------------------------------------------------------
(* C23: the phases of a session *)

\* the types of the frames of the handshake, of either variant
KeyMaterialKinds == {"EncryptionParameters", "PublicKey", "RelinKeys", "GaloisKeys"}

\* the events of kind op, with result arg, before position j of a history
Before(ev, j, op, arg) == {i \in 1..(j - 1) : ev[i].op = op /\ ev[i].arg = arg}

\* C23: the owner sends every handshake frame before any input frame and every
\* input frame before it reads a result frame; the compute party sends no
\* frame until it has received and loaded every input frame and performed its
\* three pipeline operations; no phase overlaps another
C23_SequentialPhases ==
    LET hs  == Len(OwnerHandshake(ownerVariant))
        inp == Len(OwnerInputs(ownerVariant))
        exp == Len(ServerHandshake(serverVariant)) + Len(ServerInputs(serverVariant))
    IN  /\ \A j \in 1..Len(c2sLog) : (c2sLog[j].f.kind \in KeyMaterialKinds) <=> (j <= hs)
        /\ \A j \in 1..Len(cEv) :
             /\ cEv[j].op = "receive_data" =>
                    Cardinality(Before(cEv, j, "send_data", "true")) = hs + inp
             /\ cEv[j].op = "send_data" =>
                    \A i \in 1..(j - 1) : cEv[i].op # "receive_data"
        /\ \A j \in 1..Len(sEv) :
             /\ sEv[j].op = "send_data" =>
                    /\ Cardinality(Before(sEv, j, "load", "ok")) = exp
                    /\ Cardinality({i \in 1..(j - 1) : sEv[i].op = "evaluator"}) = 3
             /\ sEv[j].op \in {"receive_data", "load", "evaluator"} =>
                    \A i \in 1..(j - 1) : sEv[i].op # "send_data"

\* a goal session in which every phase has taken place on both sides
C23_Witness ==
    /\ ownerVariant = "goal" /\ cpc = "done" /\ spc = "done"
    /\ Len(c2sLog) = 8 /\ Len(s2cLog) = 5 /\ Len(cGot) = 5

----------------------------------------------------------------------------
(* C24: the encryption parameters *)

\* C24: the parameters are written exactly once in a session, as the first
\* frame; once the handshake is over the compute party's context holds
\* exactly the parameters the owner holds and sent, and they stay so
C24_ParametersSentOnceAndKept ==
    /\ \A j \in 1..Len(c2sLog) : (c2sLog[j].f.kind = "EncryptionParameters") <=> (j = 1)
    /\ conn => cObj["parms"] = KeyObj("EncryptionParameters")
    /\ c2sLog # <<>> => c2sLog[1].f = cObj["parms"]
    /\ "parms" \in DOMAIN sObj => (c2sLog[1].full /\ sObj["parms"] = c2sLog[1].f)
    /\ spc \in {"inputs", "evaluate", "results", "done"} => "parms" \in DOMAIN sObj

\* a session past its handshake and its pipeline, the context still in place
C24_Witness ==
    /\ spc = "results" /\ si = 2
    /\ sObj["parms"] = cObj["parms"]
    /\ Len(c2sLog) > Len(OwnerHandshake(ownerVariant))

----------------------------------------------------------------------------
(* C25: one session in the lifetime of the compute party *)

\* what holds of the connections in every state
OneConnectionServed ==
    /\ Len(sock.accepted) <= 1
    /\ sock.accepted # <<>> => NewSocket = "owner"
    /\ other.unread = other.sent
    /\ Terminal(spc) => Len(sock.accepted) = 1

\* C25: the compute party accepts exactly one connection and serves one
\* session on it; no frame of a second owner, connected during or after that
\* session, is ever read; once the session is over, well or badly, the
\* compute party has terminated and accepts nothing more
C25_OneSessionOnly ==
    /\ []OneConnectionServed
    /\ [][Terminal(spc) => (spc' = spc /\ sock' = sock /\ sEv' = sEv)]_vars

\* a second owner connected and wrote a frame while the session was running,
\* and the compute party has finished without reading it
C25_Witness ==
    /\ spc = "done"
    /\ other.pc = "handshake" /\ Len(other.sent) = 1 /\ other.unread = other.sent
    /\ sock.backlog = <<"other">>

\* the compute party failed and a second owner that came later was refused
C25_WitnessRefused == spc = "failed" /\ other.pc = "refused"

----------------------------------------------------------------------------
(* C26: the owner started before the compute party listens *)

\* the owner's connect() has failed
ConnectFailed == ~conn /\ cpc # "connect"

\* C26: when connect fails because no compute party is listening, the owner
\* reports the connection failure and exits; it has generated no key, sent no
\* frame and asked for no amount, and never does
C26_ConnectFailureExitsEarly ==
    ConnectFailed =>
        /\ cpc = "failed"
        /\ Len(cEv) = 2
        /\ cEv[1].op = "cerr"
        /\ cEv[1].arg = "Connection Failed. Ensure server_app is running first."
        /\ cEv[2] = Ev("return", "-1", "none")
        /\ cObj = NoObj
        /\ c2sLog = <<>> /\ c2s = <<>>
        /\ scaled = NoScaled
        /\ cGot = <<>> /\ shown = NoObj

\* the owner gave up, and the compute party began to listen only afterwards
C26_Witness == ConnectFailed /\ spc = "accept" /\ sock.backlog = <<>>

----------------------------------------------------------------------------
(* C27: termination of a session *)

\* some send_data did not return true or some receive_data returned no message
Broke(ev) ==
    \E i \in 1..Len(ev) :
        \/ ev[i].op = "send_data" /\ ev[i].arg # "true"
        \/ ev[i].op = "receive_data" /\ ev[i].arg # "message"

TransportFailed == Broke(cEv) \/ Broke(sEv)

\* a side waits in recv() for bytes its living peer has not written
OwnerBlocked == cpc = "results" /\ s2c = <<>> /\ ~Terminal(spc)

ServerBlocked == spc \in {"handshake", "inputs"} /\ c2s = <<>> /\ ~Terminal(cpc)

\* frames from the owner and frames back, by variant
FramesIn(v) == IF v = "goal" THEN 8 ELSE 5

FramesOut(v) == IF v = "goal" THEN 5 ELSE 2

BothDone == cpc = "done" /\ spc = "done"

\* with one variant on both sides and no failed send or receive: never both
\* sides in a receive, and a side that is done has the counts of its variant
TerminationCounts ==
    (SameVariant /\ ~TransportFailed) =>
        /\ ~(OwnerBlocked /\ ServerBlocked)
        /\ spc = "done" =>
               /\ Len(sGot) = FramesIn(serverVariant) /\ Len(c2sLog) = Len(sGot)
               /\ Len(s2cLog) = FramesOut(serverVariant)
        /\ cpc = "done" =>
               /\ Len(c2sLog) = FramesIn(ownerVariant)
               /\ Len(cGot) = FramesOut(ownerVariant) /\ Len(s2cLog) = Len(cGot)
               /\ c2s = <<>> /\ s2c = <<>>

----------------------------------------------------------------------------
(* C28: no timeout *)

BlockedStaysBlocked ==
    /\ (ServerBlocked /\ c2s' = <<>> /\ ~Terminal(cpc')) =>
           (spc' = spc /\ si' = si /\ sGot' = sGot /\ sEv' = sEv)
    /\ (OwnerBlocked /\ s2c' = <<>> /\ ~Terminal(spc')) =>
           (cpc' = cpc /\ ci' = ci /\ cGot' = cGot /\ cEv' = cEv)
    /\ (OwnerBlocked /\ ServerBlocked) => (OwnerBlocked' /\ ServerBlocked')

----------------------------------------------------------------------------
(* C29: the empty frame *)

\* the calls of a history that returned the empty string
Empties(got) == {i \in 1..Len(got) : got[i].ret = EmptyStr /\ ~got[i].crash}

\* C29: receive_data returns the empty string for a whole frame of length
\* zero as for a receive error, and the caller that gets it aborts: the call
\* is the last of its side, the side has failed, and no variable of the
\* session holds an empty message
C29_EmptyFrameIsFailure ==
    /\ \A i \in Empties(sGot) : i = Len(sGot) /\ spc = "failed"
    /\ \A i \in Empties(cGot) : i = Len(cGot) /\ cpc = "failed"
    /\ \A n \in DOMAIN sObj : sObj[n] # EmptyStr
    /\ \A n \in DOMAIN cObj : cObj[n] # EmptyStr
    /\ \A i \in 1..Len(sEv) :
           (sEv[i].op = "receive_data" /\ sEv[i].arg = "empty") =>
               \A j \in (i + 1)..Len(sEv) : sEv[j].op \in {"cerr", "return"}

\* a frame of length zero arrived whole where the public key was expected,
\* and the compute party gave up
C29_Witness ==
    /\ fault = "empty_public_key"
    /\ Len(sGot) = 2
    /\ sGot[2] = [ret |-> EmptyStr, cause |-> "none", crash |-> FALSE]
    /\ c2sLog[2] = [f |-> EmptyStr, full |-> TRUE]
    /\ spc = "failed"

\* send_data and receive_data themselves: a call that read a whole frame of
\* length zero and a call whose recv failed both return the empty string
EmptyFrameReadsAsEmptyString ==
    \A i \in 1..Len(recvLog) :
        /\ recvLog[i].how = "error" => recvLog[i].ret = <<>>
        /\ (/\ i <= Len(sendLog)
            /\ \A j \in 1..i : sendLog[j].wrote = WholeFrame(sendLog[j].x)
            /\ sendLog[i].x = <<>>) =>
               (recvLog[i].how = "whole" /\ recvLog[i].ret = <<>>)

\* a frame of length zero was written whole and the call that read it
\* returned the empty string
EmptyFrameWasRead ==
    /\ sendLog # <<>> /\ recvLog # <<>>
    /\ sendLog[1].x = <<>> /\ sendLog[1].wrote = WholeFrame(<<>>)
    /\ recvLog[1] = [ret |-> <<>>, how |-> "whole"]

----------------------------------------------------------------------------
(* C30: the scale exponents in the two pipelines *)

\* the positions of a history at which the evaluator performed one of ops
Evaluations(ev, which) ==
    {i \in 1..Len(ev) : ev[i].op = "evaluator" /\ ev[i].arg \in which}

\* C30: once the pipeline has run, every addition and subtraction has combined
\* two operands of exponent 1 into its destination; the savings contribution
\* is the only value of exponent 2 on either side, nothing has a larger
\* exponent, and no addition or subtraction takes the contribution as an
\* operand or follows the multiplication
C30_PipelinesKeepExponents ==
    LET sums == PipelineSums(serverVariant)
    IN  /\ ops # <<>> =>
              \A k \in 1..Len(sums) :
                  /\ sObj[sums[k].a].exp = 1 /\ sObj[sums[k].b].exp = 1
                  /\ sObj[sums[k].dest] =
                         (IF sums[k].op = "add"
                          THEN Add(sObj[sums[k].a], sObj[sums[k].b], sums[k].role)
                          ELSE Sub(sObj[sums[k].a], sObj[sums[k].b], sums[k].role))
                  /\ "encrypted_savings_contribution" \notin {sums[k].a, sums[k].b}
        /\ Cardinality(Evaluations(sEv, {"add", "sub", "sub_plain"})) \in {0, Len(sums)}
        /\ \A n \in DOMAIN sObj :
               /\ sObj[n].exp <= 2
               /\ sObj[n].exp = 2 <=> n = "encrypted_savings_contribution"
        /\ \A n \in DOMAIN cObj :
               /\ cObj[n].exp <= 2
               /\ cObj[n].exp = 2 <=> cObj[n].role = "savings_contribution"
        /\ \A i \in Evaluations(sEv, {"multiply_plain"}) :
               \A j \in Evaluations(sEv, {"add", "sub", "sub_plain"}) : j < i

\* the savings pipeline has run: a difference of exponent 1 and a
\* contribution of exponent 2
C30_Witness ==
    /\ serverVariant = "savings" /\ ops # <<>>
    /\ sObj["encrypted_net_income"].exp = 1
    /\ sObj["encrypted_savings_contribution"].exp = 2

\* the goal pipeline has run: three results of exponent 1
C30_WitnessGoal ==
    /\ serverVariant = "goal" /\ ops # <<>>
    /\ sObj["encrypted_goal_difference"].exp = 1

----------------------------------------------------------------------------
(* C31: the inputs the goal pipeline sends back *)

\* the two expense ciphertexts the goal compute party sends back are the
\* objects it loaded, which are the objects the owner wrote
ExpensesSentBackAsReceived ==
    (serverVariant = "goal" /\ ops # <<>>) =>
        /\ sObj["encrypted_essential_expenses_received"] = c2sLog[7].f
        /\ sObj["encrypted_non_essential_expenses_received"] = c2sLog[8].f
        /\ Len(s2cLog) >= 4 => s2cLog[4].f = c2sLog[7].f
        /\ Len(s2cLog) >= 5 => s2cLog[5].f = c2sLog[8].f

\* C31: add, sub and sub_plain leave their inputs as they were received: the
\* 4th and 5th result frames carry the essential and non-essential
\* ciphertexts unchanged, and the breakdown the owner decodes is the scaled
\* essential and non-essential amounts it entered
C31_InputsUnchanged ==
    /\ ExpensesSentBackAsReceived
    /\ (cpc = "done" /\ ownerVariant = "goal") =>
           /\ shown["essential_expenses"].raw[1] = scaled.essential
           /\ shown["non_essential_expenses"].raw[1] = scaled.non_essential

\* the breakdown of the amounts whose hundredfold lies within the signed
\* range of the plain modulus
BreakdownExactWithinRange ==
    (cpc = "done" /\ ownerVariant = "goal") =>
        /\ scaled.essential <= PlainModulus \div 2 =>
               shown["essential_expenses"].raw[1] = scaled.essential
        /\ scaled.non_essential <= PlainModulus \div 2 =>
               shown["non_essential_expenses"].raw[1] = scaled.non_essential

\* a session that ended with the two expense frames sent back and decoded
BreakdownShown ==
    /\ cpc = "done" /\ ownerVariant = "goal" /\ Len(s2cLog) = 5
    /\ shown["essential_expenses"].raw[1] = 45050


----------------------------------------------------------------------------
(* C32: relinearize after the constant multiplication *)

\* the savings contribution as multiply_plain leaves it, before relinearize
UnreducedContribution(income) ==
    MultiplyPlain(income, Encode(Fill(ToScaled(SavingsRate)), "savings_rate"),
                  "savings_contribution")

----------------------------------------------------------------------------
(* C33: the range of the plain modulus *)

\* "values up to approx 1 billion (2^30)"
ClaimedRange == Pow(2, 30)

\* the integers the pipelines are meant to produce, by role
ExactResults ==
    IF ownerVariant = "goal"
    THEN [total_expenses |-> <<scaled.essential + scaled.non_essential>>,
          net_income |-> <<scaled.income[1] - (scaled.essential + scaled.non_essential)>>,
          goal_difference |->
              <<scaled.income[1] - (scaled.essential + scaled.non_essential) - scaled.goal>>,
          essential_expenses |-> <<scaled.essential>>,
          non_essential_expenses |-> <<scaled.non_essential>>]
    ELSE [net_income |-> [i \in 1..SlotCount |-> scaled.income[i] - scaled.expense[i]],
          savings_contribution |-> [i \in 1..SlotCount |-> scaled.income[i] * 15]]

\* C33 (as claimed): every input and every result of the pipelines whose exact
\* integer value is at most 2^30 in magnitude, the exponent-2 product
\* income * 15 included, is decoded by the owner as that exact integer.
C33_ExactUpToTwoToThirty ==
    cpc = "done" =>
        \A role \in DOMAIN shown : \A i \in DOMAIN shown[role].raw :
            Abs(ExactResults[role][i]) <= ClaimedRange =>
                shown[role].raw[i] = ExactResults[role][i]

\* C33: what the modulus does give: exact decoding of every value whose
\* magnitude is at most (t - 1) / 2, half the claimed range
ExactUpToHalfModulus ==
    cpc = "done" =>
        \A role \in DOMAIN shown : \A i \in DOMAIN shown[role].raw :
            Abs(ExactResults[role][i]) <= PlainModulus \div 2 =>
                shown[role].raw[i] = ExactResults[role][i]

\* C33: the product 40000000 * 15 comes back negative
ProductChangedSign ==
    /\ cpc = "done" /\ ownerVariant = "savings"
    /\ scaled.income[1] * 15 = 600000000
    /\ shown["savings_contribution"].raw[1] = 600000000 - PlainModulus


----------------------------------------------------------------------------
(* C34: the recommendation of the goal owner *)

\* the owner printed this line of the recommendations
Said(line) == \E i \in 1..Len(cEv) : cEv[i].op = "cout" /\ cEv[i].arg = line

\* the owner printed this line with this amount
SaidAmount(line, amount) ==
    \E i \in 1..Len(cEv) : cEv[i] = Cout(line, ToString(amount))

\* C34: after a successful goal session the owner reports being on track
\* exactly when the decrypted goal difference is >= 0 and a surplus exactly
\* when it is > 0; otherwise it reports a shortfall of the absolute value of the
\* difference, and then advises reducing non-essential spending exactly when
\* the decrypted non-essential total is > 0.
C34_GoalRecommendation ==
    (cpc = "done" /\ ownerVariant = "goal") =>
        LET d == shown["goal_difference"].raw[1]
            n == shown["non_essential_expenses"].raw[1]
        IN  /\ Said("on track") <=> d >= 0
            /\ Said("additional beyond goal") <=> d > 0
            /\ d > 0 => SaidAmount("additional beyond goal", d)
            /\ Said("need to save an additional") <=> d < 0
            /\ d < 0 => SaidAmount("need to save an additional", Abs(d))
            /\ Said("adjust NON-ESSENTIALS") <=> (d < 0 /\ n > 0)
            /\ Said("even with zero non-essential spending") <=> (d < 0 /\ n <= 0)

\* C34: on track with nothing to spare
C34_Witness ==
    /\ cpc = "done" /\ ownerVariant = "goal"
    /\ shown["goal_difference"].raw[1] = 0
    /\ Said("on track") /\ ~Said("additional beyond goal")

\* C34: a shortfall with non-essential spending to cut
C34_WitnessShortfall ==
    /\ cpc = "done" /\ ownerVariant = "goal"
    /\ shown["goal_difference"].raw[1] = -150000
    /\ shown["non_essential_expenses"].raw[1] = 55025
    /\ SaidAmount("need to save an additional", 150000)
    /\ Said("adjust NON-ESSENTIALS")

\* C34: a shortfall with no non-essential spending
C34_WitnessNothingToCut ==
    /\ cpc = "done" /\ ownerVariant = "goal"
    /\ shown["goal_difference"].raw[1] < 0
    /\ shown["non_essential_expenses"].raw[1] = 0
    /\ Said("even with zero non-essential spending")


----------------------------------------------------------------------------
(* C35: slot bounds of the savings owner *)

\* the vector has exactly slot_count entries and no write went beyond them
WithinSlots(v, writes) ==
    /\ DOMAIN v = 1..SlotCount
    /\ \A i \in writes : i < SlotCount

\* the amounts kept are the first slot_count entered ones, in order
KeptPrefix(typedList, kept) ==
    /\ Len(kept) <= SlotCount
    /\ \A i \in 1..Len(kept) :
           kept[i] = (IF i <= Len(typedList) THEN typedList[i] ELSE ZeroAmount)
    /\ \A i \in 1..SlotCount : i <= Len(typedList) => i <= Len(kept)

\* slot i holds round(amount_i * 100) for each kept amount, 0 elsewhere
SlotsHoldRounded(typedList, v) ==
    \A i \in 1..SlotCount :
        v[i] = (IF i <= Len(typedList) THEN Rounded(typedList[i]) ELSE ZeroScaled)

\* C35 (as claimed): for any number of entered income and expense amounts the
\* scaled vectors have exactly slot_count entries, entries beyond slot_count
\* are dropped, every write index is below slot_count, slot i holds
\* round(amount_i * 100) for each kept amount and every remaining slot is 0.
C35_SlotBounds ==
    filled # <<>> =>
        /\ WithinSlots(filled.income_scaled_data, filled.income_writes)
        /\ WithinSlots(filled.expense_scaled_data, filled.expense_writes)
        /\ KeptPrefix(entered.income, filled.income_double_data)
        /\ KeptPrefix(entered.expense, filled.expense_double_data)
        /\ SlotsHoldRounded(entered.income, filled.income_scaled_data)
        /\ SlotsHoldRounded(entered.expense, filled.expense_scaled_data)

\* every kept amount of the list has a hundredfold an int64_t holds
KeptFit(typedList) ==
    \A i \in 1..SlotCount : i <= Len(typedList) => FitsInt64(Rounded(typedList[i]))

\* C35: the bounds hold for every entered list, and the slots hold the rounded
\* amounts whenever the scaling statement does not overflow (C21)
SlotBoundsWhenInRange ==
    filled # <<>> =>
        /\ WithinSlots(filled.income_scaled_data, filled.income_writes)
        /\ WithinSlots(filled.expense_scaled_data, filled.expense_writes)
        /\ KeptPrefix(entered.income, filled.income_double_data)
        /\ KeptPrefix(entered.expense, filled.expense_double_data)
        /\ KeptFit(entered.income) =>
               SlotsHoldRounded(entered.income, filled.income_scaled_data)
        /\ KeptFit(entered.expense) =>
               SlotsHoldRounded(entered.expense, filled.expense_scaled_data)
        /\ filled.warning <=>
               (Len(entered.income) > SlotCount \/ Len(entered.expense) > SlotCount)

\* C35: more amounts than slots were entered and the list was cut
ListWasTruncated ==
    /\ filled # <<>> /\ filled.warning
    /\ Len(entered.income) = MaxEntries /\ Len(entered.expense) = 1
    /\ Len(filled.income_double_data) = SlotCount
    /\ Len(filled.expense_double_data) = SlotCount
    /\ KeptFit(entered.income)

====
